---------------------------- MODULE Spec2Model ----------------------------
(***************************************************************************)
(* Model of the orchestration and citation-integrity core of               *)
(* mediated-reasoning: Mediator.analyze (src/src/mediator.py), the         *)
(* parallel dispatch protocol ClaudeClient.run_ptc_round                   *)
(* (src/src/llm/client.py) and the source consolidator.                    *)
(*                                                                         *)
(* Encoding of Python values                                               *)
(*  - a text (str) is the sequence of the pieces re.sub sees: every match  *)
(*    of \[(\d+)\] is one token "[N]", every other token is a literal      *)
(*    chunk ("w", "red:", "burn", ...).  "" is << >>.                      *)
(*  - a source string is a record [pre, title, url]: pre counts leading    *)
(*    ordinal prefixes ("1. "), url is the first https?:// match with      *)
(*    trailing punctuation removed ("" when there is none).                *)
(*  - a JSON value that is not a string is NotAString.                     *)
(***************************************************************************)
EXTENDS Integers, Sequences, FiniteSets, TLC

(***************************************************************************)
(* Bounds of the model                                                     *)
(***************************************************************************)
\* largest citation number occurring in an input text
MaxCite == 3
\* longest sources list of one module response in the consolidation runs
MaxSrc == 2
\* exchange cycles the service may spend on one dispatch round
MaxCycles == 2
\* longest batch of invocation requests in one service answer
MaxBatch == 2
\* longest selected_modules list of a selection response in the selection runs
MaxSelected == 2
\* longest ad_hoc_modules list of a gap-check response in the selection runs
MaxAdHocRaw == 4

(***************************************************************************)
(* Texts and citation markers                                              *)
(***************************************************************************)
\* the numbers the model can meet in a marker: those of the inputs and every
\* global index (there are never more global entries than distinct URLs)
MarkerNums == 0..(MaxCite + 8)

\* f"[{n}]"
MarkerTable == [n \in MarkerNums |-> "[" \o ToString(n) \o "]"]

Marker(n) == MarkerTable[n]

MarkerTokens == { MarkerTable[n] : n \in MarkerNums }

\* a match of \[(\d+)\]
IsMarker(tok) == tok \in MarkerTokens

\* int(m.group(1))
MarkerNum(tok) == CHOOSE n \in MarkerNums : MarkerTable[n] = tok

NotAString == << "<not-a-str>" >>

IsStr(v) == v # NotAString

\* the citation numbers left in a text: re.findall(r'\[(\d+)\]', text)
CitedIn(text) == { MarkerNum(text[i]) : i \in { j \in 1..Len(text) : IsMarker(text[j]) } }

EmptyMap == [x \in {} |-> 0]

\* a faulty _remap_citations(..., drop_on_miss=True): a marker without a mapping
\* is left in the text instead of being deleted
_remap_drop_leaving_unmapped(text, index_map) ==
    [i \in 1..Len(text) |->
        IF IsMarker(text[i]) /\ MarkerNum(text[i]) \in DOMAIN index_map
        THEN Marker(index_map[MarkerNum(text[i])])
        ELSE text[i]]

_remap_drop(text, index_map) ==
    LET kept == SelectSeq(text, LAMBDA t : IsMarker(t) => MarkerNum(t) \in DOMAIN index_map)
    IN  [i \in 1..Len(kept) |->
            IF IsMarker(kept[i]) THEN Marker(index_map[MarkerNum(kept[i])]) ELSE kept[i]]

_remap_keep(text, index_map) ==
    [i \in 1..Len(text) |->
        IF IsMarker(text[i]) /\ MarkerNum(text[i]) \in DOMAIN index_map
        THEN Marker(index_map[MarkerNum(text[i])])
        ELSE text[i]]

_remap_citations(text, index_map, drop_on_miss) ==
    IF drop_on_miss THEN _remap_drop(text, index_map) ELSE _remap_keep(text, index_map)

\* analysis is a mapping field -> string; every string value is remapped
_remap_analysis(analysis, index_map, drop_on_miss) ==
    [k \in DOMAIN analysis |-> _remap_citations(analysis[k], index_map, drop_on_miss)]

(***************************************************************************)
(* Source strings                                                          *)
(***************************************************************************)
Src(p, t, u) == [pre |-> p, title |-> t, url |-> u]

\* re.sub(r"^\d+\.\s*", "", source): removes one leading ordinal
_strip_source_prefix(source) ==
    IF source.pre > 0 THEN [source EXCEPT !.pre = @ - 1] ELSE source

\* first URL of the string, "" if none
_extract_url_from_source(source) == source.url

\* Python's "url in entry"
UrlIn(url, entry) == entry.url = url

(***************************************************************************)
(* _consolidate_sources: the accumulating index (global_sources, seen_text,*)
(* seen_url) is threaded through as a record                               *)
(***************************************************************************)
EmptyIndex == [global_sources |-> << >>, seen_text |-> EmptyMap, seen_url |-> EmptyMap]

\* a faulty _add_source: entries are deduplicated by their text only, the URL
\* of a source is not looked up
_add_source_by_text(st, raw_source) ==
    LET stripped == _strip_source_prefix(raw_source)
        url == _extract_url_from_source(stripped)
    IN  IF url = ""
        THEN [st |-> st, idx |-> 0]
        ELSE IF stripped \in DOMAIN st.seen_text
        THEN [st |-> st, idx |-> st.seen_text[stripped]]
        ELSE LET idx == Len(st.global_sources) + 1
             IN  [st |-> [global_sources |-> Append(st.global_sources, stripped),
                          seen_text |-> st.seen_text @@ (stripped :> idx),
                          seen_url |-> st.seen_url],
                  idx |-> idx]

\* a faulty _add_source: a source without a URL is indexed like any other
_add_source_keeping_urlless(st, raw_source) ==
    LET stripped == _strip_source_prefix(raw_source)
        url == _extract_url_from_source(stripped)
    IN  IF url # "" /\ url \in DOMAIN st.seen_url
        THEN [st |-> st, idx |-> st.seen_url[url]]
        ELSE IF stripped \in DOMAIN st.seen_text
        THEN [st |-> st, idx |-> st.seen_text[stripped]]
        ELSE LET idx == Len(st.global_sources) + 1
             IN  [st |-> [global_sources |-> Append(st.global_sources, stripped),
                          seen_text |-> st.seen_text @@ (stripped :> idx),
                          seen_url |-> IF url # "" THEN st.seen_url @@ (url :> idx)
                                       ELSE st.seen_url],
                  idx |-> idx]

\* returns [st, idx]; idx = 0 is the "skip" sentinel
_add_source(st, raw_source) ==
    LET stripped == _strip_source_prefix(raw_source)
        url == _extract_url_from_source(stripped)
    IN  IF url = ""
        THEN [st |-> st, idx |-> 0]
        ELSE IF url \in DOMAIN st.seen_url
        THEN LET existing_idx == st.seen_url[url]
             IN  [st |-> IF ~UrlIn(url, st.global_sources[existing_idx])
                         THEN [st EXCEPT !.global_sources[existing_idx] = stripped]
                         ELSE st,
                  idx |-> existing_idx]
        ELSE IF stripped \in DOMAIN st.seen_text
        THEN [st |-> st, idx |-> st.seen_text[stripped]]
        ELSE LET idx == Len(st.global_sources) + 1
             IN  [st |-> [global_sources |-> Append(st.global_sources, stripped),
                          seen_text |-> st.seen_text @@ (stripped :> idx),
                          seen_url |-> st.seen_url @@ (url :> idx)],
                  idx |-> idx]

\* for local_idx, raw_source in enumerate(sources, 1): ... ; keep_zero is the
\* synthesis loop, which stores the result of _add_source unconditionally
RECURSIVE ScanSources(_, _, _, _, _)
ScanSources(st, sources, local_idx, index_map, keep_zero) ==
    IF local_idx > Len(sources)
    THEN [st |-> st, index_map |-> index_map]
    ELSE LET r == _add_source(st, sources[local_idx])
         IN  ScanSources(r.st, sources, local_idx + 1,
                         IF r.idx > 0 \/ keep_zero
                         THEN index_map @@ (local_idx :> r.idx)
                         ELSE index_map,
                         keep_zero)

RECURSIVE ScanOutputs(_, _, _, _)
ScanOutputs(st, all_outputs, i, output_maps) ==
    IF i > Len(all_outputs)
    THEN [st |-> st, output_maps |-> output_maps]
    ELSE LET r == ScanSources(st, all_outputs[i].sources, 1, EmptyMap, FALSE)
         IN  ScanOutputs(r.st, all_outputs, i + 1, Append(output_maps, r.index_map))

\* a faulty construction of the returned ModuleOutput: the sources of the input
\* are carried over
RemapOutput_keeping_sources(output, index_map) ==
    [module_name |-> output.module_name,
     round |-> output.round,
     analysis |-> _remap_analysis(output.analysis, index_map, TRUE),
     flags |-> [i \in 1..Len(output.flags) |->
                    _remap_citations(output.flags[i], index_map, TRUE)],
     sources |-> output.sources,
     revised |-> output.revised]

RemapOutput(output, index_map) ==
    [module_name |-> output.module_name,
     round |-> output.round,
     analysis |-> _remap_analysis(output.analysis, index_map, TRUE),
     flags |-> [i \in 1..Len(output.flags) |->
                    _remap_citations(output.flags[i], index_map, TRUE)],
     sources |-> << >>,
     revised |-> output.revised]

\* {} : what synthesis_result is when synthesis failed or was skipped
EmptySynthesis ==
    [conflicts |-> << >>, synthesis |-> << >>, recommendations |-> << >>,
     priority_flags |-> << >>, sources |-> << >>]

\* re.sub raises TypeError on a value that is not a string
SynthesisTypeError(synthesis_result) ==
    \/ \E i \in 1..Len(synthesis_result.conflicts) :
            ~IsStr(synthesis_result.conflicts[i].description)
    \/ \E i \in 1..Len(synthesis_result.recommendations) :
            ~IsStr(synthesis_result.recommendations[i])
    \/ \E i \in 1..Len(synthesis_result.priority_flags) :
            ~IsStr(synthesis_result.priority_flags[i])
    \/ ~IsStr(synthesis_result.synthesis)

\* a faulty pair of scanning loops: the synthesis sources are numbered on their
\* own, without the index built from the module outputs
SourceMaps_separate_synthesis(all_outputs, synthesis_result) ==
    LET mods == ScanOutputs(EmptyIndex, all_outputs, 1, << >>)
        syn == ScanSources(EmptyIndex, synthesis_result.sources, 1, EmptyMap, TRUE)
    IN  [st |-> [mods.st EXCEPT
                    !.global_sources = @ \o syn.st.global_sources],
         output_maps |-> mods.output_maps, synthesis_map |-> syn.index_map]

\* a faulty pair of scanning loops: the sources array of the synthesis response
\* is not scanned
SourceMaps_without_synthesis_sources(all_outputs, synthesis_result) ==
    LET mods == ScanOutputs(EmptyIndex, all_outputs, 1, << >>)
    IN  [st |-> mods.st, output_maps |-> mods.output_maps, synthesis_map |-> EmptyMap]

\* the two scanning loops: the index and the local -> global maps they build
SourceMaps(all_outputs, synthesis_result) ==
    LET mods == ScanOutputs(EmptyIndex, all_outputs, 1, << >>)
        syn == ScanSources(mods.st, synthesis_result.sources, 1, EmptyMap, TRUE)
    IN  [st |-> syn.st, output_maps |-> mods.output_maps, synthesis_map |-> syn.index_map]

_consolidate_sources(all_outputs, synthesis_result) ==
    LET maps == SourceMaps(all_outputs, synthesis_result)
        synthesis_map == maps.synthesis_map
    IN  [raised |-> SynthesisTypeError(synthesis_result),
         global_sources |-> maps.st.global_sources,
         remapped_outputs |->
            [i \in 1..Len(all_outputs) |-> RemapOutput(all_outputs[i], maps.output_maps[i])],
         remapped_synthesis |->
            [conflicts |->
                [i \in 1..Len(synthesis_result.conflicts) |->
                    [synthesis_result.conflicts[i] EXCEPT
                        !.description = _remap_citations(@, synthesis_map, FALSE)]],
             recommendations |->
                [i \in 1..Len(synthesis_result.recommendations) |->
                    _remap_citations(synthesis_result.recommendations[i], synthesis_map, FALSE)],
             priority_flags |->
                [i \in 1..Len(synthesis_result.priority_flags) |->
                    _remap_citations(synthesis_result.priority_flags[i], synthesis_map, FALSE)],
             synthesis |-> _remap_citations(synthesis_result.synthesis, synthesis_map, FALSE)]]

(***************************************************************************)
(* _consolidate_resolution_sources                                         *)
(***************************************************************************)
\* "Rebuild seen maps from the existing global list": a later entry overwrites
RECURSIVE RebuildSeen(_, _, _)
RebuildSeen(st, global_sources, idx) ==
    IF idx > Len(global_sources)
    THEN st
    ELSE LET source == global_sources[idx]
             url == _extract_url_from_source(source)
             put(f, k) == [x \in DOMAIN f \cup {k} |-> IF x = k THEN idx ELSE f[x]]
         IN  RebuildSeen([global_sources |-> global_sources,
                          seen_text |-> put(st.seen_text, source),
                          seen_url |-> IF url # "" THEN put(st.seen_url, url) ELSE st.seen_url],
                         global_sources, idx + 1)

RECURSIVE ScanResolutions(_, _, _, _)
ScanResolutions(st, resolutions, i, remapped) ==
    IF i > Len(resolutions)
    THEN [global_sources |-> st.global_sources, resolutions |-> remapped]
    ELSE LET res == resolutions[i]
             r == ScanSources(st, res.sources, 1, EmptyMap, FALSE)
         IN  ScanResolutions(r.st, resolutions, i + 1,
                Append(remapped,
                    [topic |-> res.topic,
                     modules |-> res.modules,
                     severity |-> res.severity,
                     verdict |-> _remap_citations(res.verdict, r.index_map, TRUE),
                     updated_recommendation |->
                        _remap_citations(res.updated_recommendation, r.index_map, TRUE),
                     sources |-> << >>]))

\* a faulty _consolidate_resolution_sources: the seen maps are not rebuilt from
\* the existing global list
_consolidate_resolution_sources_fresh_maps(global_sources, resolutions) ==
    ScanResolutions([global_sources |-> global_sources, seen_text |-> EmptyMap,
                     seen_url |-> EmptyMap], resolutions, 1, << >>)

_consolidate_resolution_sources(global_sources, resolutions) ==
    ScanResolutions(RebuildSeen(EmptyIndex, global_sources, 1), resolutions, 1, << >>)

(***************************************************************************)
(* Ordering helpers: sorted(..., key=...) and list.sort(key=...) are stable *)
(***************************************************************************)
RECURSIVE InsertByKey(_, _, _)
InsertByKey(sorted, x, key) ==
    IF sorted = << >> THEN << x >>
    ELSE IF key[Len(sorted)] <= key[Len(sorted) + 1]
         THEN Append(sorted, x)
         ELSE Append(InsertByKey(SubSeq(sorted, 1, Len(sorted) - 1), x,
                                 [i \in 1..Len(sorted) |->
                                    IF i = Len(sorted) THEN key[Len(sorted) + 1] ELSE key[i]]),
                     sorted[Len(sorted)])

\* stable sort of seq by the integer keys keys[i] of its elements
RECURSIVE StableSort(_, _)
StableSort(seq, keys) ==
    IF seq = << >> THEN << >>
    ELSE LET n == Len(seq)
             front == StableSort(SubSeq(seq, 1, n - 1), SubSeq(keys, 1, n - 1))
             fkeys == StableSort(SubSeq(keys, 1, n - 1), SubSeq(keys, 1, n - 1))
         IN  InsertByKey(front, seq[n], Append(fkeys, keys[n]))

\* {m.name: i for i, m in enumerate(modules)}
ModuleOrderOf(modules) ==
    [n \in { modules[i] : i \in 1..Len(modules) } |->
        CHOOSE i \in 1..Len(modules) :
            modules[i] = n /\ \A j \in 1..Len(modules) : modules[j] = n => j <= i]

\* sorted(captured.values(), key=lambda o: module_order.get(o.module_name, 999))
SortByRoster(outputs, modules) ==
    LET order == ModuleOrderOf(modules)
    IN  StableSort(outputs,
            [i \in 1..Len(outputs) |->
                IF outputs[i].module_name \in DOMAIN order
                THEN order[outputs[i].module_name] ELSE 999])

(***************************************************************************)
(* Configuration and rosters                                               *)
(***************************************************************************)
MODULE_REGISTRY == << "market", "tech", "cost", "legal", "scalability" >>

\* self.weights.get(name, 1)
WeightOf(w, name) == IF name \in DOMAIN w THEN w[name] ELSE 1

\* weight maps the mediator is constructed with
WeightConfigs ==
    { [legal |-> 0, scalability |-> 0],
      [tech |-> 0, legal |-> 0, scalability |-> 0, market |-> 2] }

\* weight maps of the mediators constructed with auto_select
AdaptiveWeightConfigs ==
    { [tech |-> 0, legal |-> 0, scalability |-> 0, market |-> 2, extra |-> 0] }

\* sorted(MODULE_SYSTEM_PROMPTS.keys()) at import time: the fixed pool
ALL_MODULE_NAMES ==
    { "market", "tech", "cost", "legal", "scalability", "political", "social",
      "environmental", "ethics", "operational", "strategy", "risk" }

Problems == { "X" }

Severities == { "critical", "high", "medium", "low" }

\* _init_default_modules
DeactivatedOf(all_modules, w) == SelectSeq(all_modules, LAMBDA n : WeightOf(w, n) = 0)

ActiveOf(all_modules, w) ==
    LET deactivated == DeactivatedOf(all_modules, w)
    IN  SelectSeq(all_modules,
                  LAMBDA n : ~\E i \in 1..Len(deactivated) : deactivated[i] = n)

(***************************************************************************)
(* Responses of the remote service (any LiteLLM completion is untrusted)   *)
(***************************************************************************)
SrcA1 == Src(0, "A", "u1")
SrcB1 == Src(0, "B", "u1")
SrcN1 == Src(1, "B", "u1")
SrcC2 == Src(0, "C", "u2")
SrcN2 == Src(1, "C", "u2")
SrcD3 == Src(0, "D", "u3")
SrcNoUrl == Src(0, "A", "")

\* what client.analyze returns to run_round1 / run_round2
ModuleResponses ==
    { [analysis |-> [summary |-> << "w", "[1]", "[2]" >>],
       flags |-> << << "yellow:", "[2]", "[3]" >> >>,
       sources |-> << SrcA1, SrcNoUrl >>],
      [analysis |-> [summary |-> << "[1]", "w" >>],
       flags |-> << >>,
       sources |-> << SrcN1 >>] }

\* what client.analyze returns to the synthesis request
SynthesisResponses ==
    { [conflicts |-> << [modules |-> << "market", "cost" >>, topic |-> << "burn" >>,
                         description |-> << "w", "[1]" >>, severity |-> "high"] >>,
       synthesis |-> << "w", "[1]", "[4]" >>,
       recommendations |-> << << "[2]" >> >>,
       priority_flags |-> << << "RED:", "ops", "[1]" >>, << "red:", "Burn" >> >>,
       sources |-> << >>],
      [conflicts |-> << [modules |-> << "tech" >>, topic |-> << "stack" >>,
                         description |-> << "[2]" >>, severity |-> "low"] >>,
       synthesis |-> << "[1]", "[2]" >>,
       recommendations |-> << >>,
       priority_flags |-> << << "yellow:", "[1]" >> >>,
       sources |-> << SrcC2, SrcNoUrl >>],
      [conflicts |-> << [modules |-> << >>, topic |-> << "x" >>,
                         description |-> << >>, severity |-> "severe"] >>,
       synthesis |-> << "w" >>,
       recommendations |-> << >>,
       priority_flags |-> << >>,
       sources |-> << >>],
      [conflicts |-> << >>,
       synthesis |-> << "w" >>,
       recommendations |-> << NotAString >>,
       priority_flags |-> << >>,
       sources |-> << >>] }

\* what client.analyze returns to a resolution request
ResolutionResponses ==
    { [verdict |-> << "w", "[1]", "[2]" >>, updated_recommendation |-> << "[1]" >>,
       sources |-> << SrcD3, SrcNoUrl >>],
      [verdict |-> << "[1]" >>, updated_recommendation |-> << "[3]" >>,
       sources |-> << SrcB1 >>] }

(***************************************************************************)
(* _run_deep_research: the items to research                               *)
(***************************************************************************)
\* str.lower() on the literal chunks that occur in the responses
Lower(tok) ==
    CASE tok = "RED:" -> "red:"
      [] tok = "Burn" -> "burn"
      [] OTHER -> tok

LowerText(text) == [i \in 1..Len(text) |-> Lower(text[i])]

\* Python's "t in s" on strings: t occurs as a contiguous part of s
IsInfix(t, s) ==
    \E k \in 0..(Len(s) - Len(t)) : \A i \in 1..Len(t) : s[k + i] = t[i]

QualifyingConflicts(conflicts) ==
    SelectSeq(conflicts, LAMBDA c : c.severity \in { "high", "critical" })

ConflictItems(conflicts) ==
    LET q == QualifyingConflicts(conflicts)
    IN  [i \in 1..Len(q) |->
            [topic |-> q[i].topic, description |-> q[i].description,
             modules |-> q[i].modules, severity |-> q[i].severity]]

ProcessedTopics(conflicts) ==
    LET q == QualifyingConflicts(conflicts)
    IN  { LowerText(q[i].topic) : i \in 1..Len(q) }

\* flag[len("red:"):].strip()
FlagText(flag) == Tail(flag)

QualifyingFlag(flag, processed_topics) ==
    /\ flag # << >>
    /\ Lower(flag[1]) = "red:"
    /\ ~\E t \in processed_topics : IsInfix(t, LowerText(FlagText(flag)))

FlagItems(conflicts, priority_flags) ==
    LET q == SelectSeq(priority_flags,
                       LAMBDA f : QualifyingFlag(f, ProcessedTopics(conflicts)))
    IN  [i \in 1..Len(q) |->
            [topic |-> FlagText(q[i]), description |-> FlagText(q[i]),
             modules |-> << >>, severity |-> "red"]]

ResearchItems(conflicts, priority_flags) ==
    ConflictItems(conflicts) \o FlagItems(conflicts, priority_flags)

\* ThreadPoolExecutor(max_workers=min(len(items), 5))
MaxWorkers == 5

PoolSize(its) == IF Len(its) < MaxWorkers THEN Len(its) ELSE MaxWorkers

\* resolve_item's ConflictResolution(...)
ResolutionOf(item, response) ==
    [topic |-> item.topic, modules |-> item.modules, severity |-> item.severity,
     verdict |-> response.verdict,
     updated_recommendation |-> response.updated_recommendation,
     sources |-> response.sources]

\* topic_order = {item["topic"]: i ...}; results.sort(key=topic_order.get(r.topic, 999))
RestoreOrder(results, items) ==
    LET topic_order(t) ==
            IF \E i \in 1..Len(items) : items[i].topic = t
            THEN CHOOSE i \in 1..Len(items) :
                    items[i].topic = t /\ \A j \in 1..Len(items) : items[j].topic = t => j <= i
            ELSE 999
    IN  StableSort(results, [i \in 1..Len(results) |-> topic_order(results[i].topic)])

(***************************************************************************)
(* State                                                                   *)
(***************************************************************************)
VARIABLES
    problem,              \* analyze's argument
    weights,              \* Mediator.weights
    deep_research,        \* Mediator.deep_research
    modules,              \* Mediator.modules: the active roster (module names)
    deactivated_modules,  \* Mediator.deactivated_modules
    auto_select,          \* Mediator.auto_select
    selected_names,       \* _select_modules: selected_names after validation
    selection_metadata,   \* Mediator.selection_metadata
    fell_back,            \* _select_modules logged a failure and took the defaults
    MODULE_SYSTEM_PROMPTS, \* the keys of the process-wide prompt table
    pc,                   \* where analyze stands
    ptc_phase,            \* run_ptc_round: "idle", "request" or "running"
    ptc_round,            \* round_num
    ptc_modules,          \* the modules argument
    cycles,               \* iterations of the while loop so far
    tool_calls,           \* the invocation requests of the current cycle
    futures,              \* the tasks submitted in the current cycle, in order
    tool_result_messages, \* responses recorded in the current cycle
    captured,             \* module_name -> ModuleOutput, in insertion order
    ptc_returned,         \* what the last run_ptc_round call returned or raised
    succeeded,            \* ModuleOutputs returned by tasks of the current round
    failed,               \* names of modules whose task raised in the current round
    round1_outputs,
    round2_outputs,
    eligible_modules,
    synthesis_result,
    pre_global_sources,
    synthesis_request,    \* what build_synthesis_prompt was given
    global_sources,
    remapped_outputs,
    remapped_synthesis,
    conflicts,
    items,                \* _run_deep_research: items
    item_running,         \* items a pool worker is running resolve_item on
    item_done,            \* items whose resolve_item has finished
    item_failed,          \* items whose resolution request raised
    resolution_requests,  \* the items a resolution request was sent for
    results,              \* _run_deep_research: results, in completion order
    conflict_resolutions,
    issued,               \* kinds of request sent to the remote service so far
    search,               \* Mediator.search and a search backend is available
    _usage,               \* ClaudeClient._usage["analyze_input"] of the module client
    _query_cache,         \* SearchPrePass._query_cache: query -> results
    result                \* the FinalAnalysis analyze returned

cfgVars == << problem, weights, deep_research, modules, deactivated_modules,
              auto_select, selected_names, selection_metadata, fell_back,
              MODULE_SYSTEM_PROMPTS >>
ptcVars == << ptc_phase, ptc_round, ptc_modules, cycles, tool_calls, futures,
              tool_result_messages, captured, succeeded, failed >>
roundVars == << round1_outputs, round2_outputs, eligible_modules, ptc_returned >>
synVars == << synthesis_result, pre_global_sources, synthesis_request >>
consVars == << global_sources, remapped_outputs, remapped_synthesis, conflicts >>
drVars == << items, item_running, item_done, item_failed, resolution_requests,
             results, conflict_resolutions >>

\* what the tasks of a round reach through the client and the searcher they
\* were all given
sharedVars == << search, _usage, _query_cache >>

vars == << cfgVars, pc, ptcVars, roundVars, synVars, consVars, drVars, issued, result,
           sharedVars >>

NoResult == [returned |-> FALSE]
NoRequest == [sent |-> FALSE]
\* selection_metadata = None
NoMetadata == [auto_selected |-> FALSE]
NotCalled == [called |-> FALSE, raised |-> FALSE, value |-> << >>]

PipelineIdle ==
    /\ ptc_phase = "idle"
    /\ ptc_round = 0
    /\ ptc_modules = << >>
    /\ cycles = 0
    /\ tool_calls = << >>
    /\ futures = << >>
    /\ tool_result_messages = << >>
    /\ captured = << >>
    /\ succeeded = {}
    /\ failed = {}
    /\ _usage = 0
    /\ _query_cache = EmptyMap

NothingConsolidated ==
    /\ global_sources = << >>
    /\ remapped_outputs = << >>
    /\ remapped_synthesis = EmptySynthesis
    /\ conflicts = << >>
    /\ items = << >>
    /\ item_running = {}
    /\ item_done = {}
    /\ item_failed = {}
    /\ resolution_requests = << >>
    /\ results = << >>
    /\ conflict_resolutions = << >>
    /\ result = NoResult

\* the state Mediator.__init__ leaves, analyze being entered: with auto_select
\* the roster is not set before _select_modules has run
Constructed ==
    /\ selected_names = << >>
    /\ selection_metadata = NoMetadata
    /\ fell_back = FALSE
    /\ MODULE_SYSTEM_PROMPTS = ALL_MODULE_NAMES
    /\ IF auto_select
       THEN /\ modules = << >>
            /\ deactivated_modules = << >>
            /\ pc = "select"
       ELSE /\ modules = ActiveOf(MODULE_REGISTRY, weights)
            /\ deactivated_modules = DeactivatedOf(MODULE_REGISTRY, weights)
            /\ pc = "round1"

Init ==
    /\ problem \in Problems
    /\ auto_select \in BOOLEAN
    /\ weights \in IF auto_select THEN AdaptiveWeightConfigs ELSE WeightConfigs
    /\ deep_research \in BOOLEAN
    /\ Constructed
    /\ search = FALSE
    /\ PipelineIdle
    /\ ptc_returned = NotCalled
    /\ round1_outputs = << >>
    /\ round2_outputs = << >>
    /\ eligible_modules = << >>
    /\ synthesis_result = EmptySynthesis
    /\ pre_global_sources = << >>
    /\ synthesis_request = NoRequest
    /\ NothingConsolidated
    /\ issued = {}

(***************************************************************************)
(* ClaudeClient.run_ptc_round                                              *)
(***************************************************************************)
Names(seq) == { seq[i] : i \in 1..Len(seq) }

\* answers of the orchestrating completion: any batch of invocation requests,
\* naming roster modules in any order, repeatedly, or a name outside the roster
BatchNames(roster) == Names(roster) \cup { "ghost" }

RECURSIVE SeqsUpTo(_, _)
SeqsUpTo(S, n) ==
    IF n = 0 THEN { << >> }
    ELSE LET shorter == SeqsUpTo(S, n - 1)
         IN  shorter \cup { Append(q, x) : q \in shorter, x \in S }

Batches(roster) == SeqsUpTo(BatchNames(roster), MaxBatch) \ { << >> }

\* entering run_ptc_round(problem, mods, round1_outputs?)
StartPtc(round_num, mods) ==
    /\ ptc_phase' = "request"
    /\ ptc_round' = round_num
    /\ ptc_modules' = mods
    /\ cycles' = 0
    /\ tool_calls' = << >>
    /\ futures' = << >>
    /\ tool_result_messages' = << >>
    /\ captured' = << >>
    /\ succeeded' = {}
    /\ failed' = {}

\* run_ptc_round is left.  captured, succeeded and failed keep their last
\* value until analyze takes its next step (nothing reads them any more), so
\* that the value returned can be compared with what the tasks of the round did.
LeavePtc ==
    /\ ptc_phase' = "idle"
    /\ ptc_round' = 0
    /\ ptc_modules' = << >>
    /\ cycles' = 0
    /\ tool_calls' = << >>
    /\ futures' = << >>
    /\ tool_result_messages' = << >>
    /\ UNCHANGED << captured, succeeded, failed >>

\* a faulty round gate: round 2 is dispatched for the whole roster
EligibleModules_whole_roster(mods, r1) == mods

\* round1_names / eligible_modules of analyze
EligibleModules(mods, r1) ==
    SelectSeq(mods, LAMBDA n : \E i \in 1..Len(r1) : r1[i].module_name = n)

\* analyze after run_ptc_round returned outs (or raised: outs = << >>):
\* outputs.sort(key=lambda o: module_order[o.module_name])
AfterRound(outs, raised) ==
    /\ ptc_returned' = [called |-> TRUE, raised |-> raised, value |-> outs]
    /\ IF ptc_round = 1
       THEN /\ round1_outputs' = SortByRoster(outs, modules)
            /\ pc' = "round2"
            /\ UNCHANGED round2_outputs
       ELSE /\ round2_outputs' = SortByRoster(outs, modules)
            /\ pc' = "synthesis"
            /\ UNCHANGED round1_outputs
    /\ LeavePtc
    /\ UNCHANGED << cfgVars, sharedVars, eligible_modules, synVars, consVars, drVars, issued, result >>

CapturedValues == [i \in 1..Len(captured) |-> captured[i].output]

\* a faulty return: captured.values() as they are, in insertion order
PtcResult_unsorted == CapturedValues

\* sorted(captured.values(), key=module_order.get(name, 999))
PtcResult == SortByRoster(CapturedValues, ptc_modules)

\* litellm.completion raises: the exception leaves run_ptc_round
PtcRequestRaises ==
    /\ ptc_phase = "request"
    /\ AfterRound(<< >>, TRUE)

\* no tool calls: break and return
PtcRequestEnds ==
    /\ ptc_phase = "request"
    /\ AfterRound(PtcResult, FALSE)

\* prior_analysis = None
NoAnalysis == [none |-> TRUE]

\* a faulty build_round2_prompt: the round-1 outputs are passed on unfiltered
PeerContext_unfiltered(module_name, r1) == r1

\* build_round2_prompt: other_outputs
PeerContext(module_name, r1) ==
    SelectSeq(r1, LAMBDA o : o.module_name # module_name)

\* run_round2: my_r1 and prior_analysis, the seed of the search context
PriorAnalysis(module_name, r1) ==
    IF \E i \in 1..Len(r1) : r1[i].module_name = module_name
    THEN r1[CHOOSE i \in 1..Len(r1) :
                /\ r1[i].module_name = module_name
                /\ \A j \in 1..(i - 1) : r1[j].module_name # module_name].analysis
    ELSE NoAnalysis

\* tasks are submitted for the requests that name a module of module_map; a
\* round-2 task is given round1_outputs, from which run_round2 takes the seed
\* of its search and build_round2_prompt the peer analyses of its prompt
Submitted(batch, cycle) ==
    LET calls == [i \in 1..Len(batch) |-> [id |-> << cycle, i >>, name |-> batch[i]]]
        known == SelectSeq(calls, LAMBDA tc : tc.name \in Names(ptc_modules))
    IN  [i \in 1..Len(known) |->
            [tc_id |-> known[i].id, name |-> known[i].name, state |-> "running",
             peer_context |-> IF ptc_round = 2
                              THEN PeerContext(known[i].name, round1_outputs)
                              ELSE << >>,
             prior_analysis |-> IF ptc_round = 2
                                THEN PriorAnalysis(known[i].name, round1_outputs)
                                ELSE NoAnalysis]]

PtcRequestBatch ==
    /\ ptc_phase = "request"
    /\ cycles < MaxCycles
    /\ \E batch \in Batches(ptc_modules) :
        /\ tool_calls' = [i \in 1..Len(batch) |->
                            [id |-> << cycles + 1, i >>, name |-> batch[i]]]
        /\ futures' = Submitted(batch, cycles + 1)
    /\ cycles' = cycles + 1
    /\ tool_result_messages' = << >>
    /\ ptc_phase' = "running"
    /\ UNCHANGED << cfgVars, sharedVars, pc, ptc_round, ptc_modules, captured, succeeded, failed,
                    roundVars, synVars, consVars, drVars, issued, result >>

\* where a task stands when its analysis request is in flight: with a searcher
\* the search context has been built first
Requesting == IF search THEN "requesting" ELSE "running"

\* response.usage.prompt_tokens, 0 when the response has no usage
Usage(r) == IF "usage" \in DOMAIN r THEN r.usage ELSE 0

\* task k has built the ModuleOutput of the response r
OutputOf(k, r) ==
    [module_name |-> futures[k].name, round |-> ptc_round,
     analysis |-> r.analysis, flags |-> r.flags,
     sources |-> r.sources, revised |-> (ptc_round = 2)]

\* searcher.run_for_module of task k, _fetch_results: "if query in
\* self._query_cache" is a hit, whose results are taken, or a miss, after which
\* the query is sent to the search backend
TaskCacheLookup(k, queries) ==
    /\ ptc_phase = "running"
    /\ search
    /\ k \in 1..Len(futures)
    /\ futures[k].state = "running"
    /\ \E q \in queries :
        futures' = [futures EXCEPT ![k] =
                        IF q \in DOMAIN _query_cache
                        THEN [state |-> "requesting", search_context |-> _query_cache[q]]
                             @@ futures[k]
                        ELSE [state |-> "fetching", query |-> q] @@ futures[k]]
    /\ UNCHANGED << cfgVars, sharedVars, pc, ptc_phase, ptc_round, ptc_modules, cycles,
                    tool_calls, tool_result_messages, captured, succeeded, failed,
                    roundVars, synVars, consVars, drVars, issued, result >>

\* _fetch_results after a miss: self._query_cache[query] = query_results
TaskCacheStore(k, search_results) ==
    /\ ptc_phase = "running"
    /\ k \in 1..Len(futures)
    /\ futures[k].state = "fetching"
    /\ \E query_results \in search_results :
        /\ _query_cache' = [q \in DOMAIN _query_cache \cup { futures[k].query } |->
                                IF q = futures[k].query THEN query_results
                                ELSE _query_cache[q]]
        /\ futures' = [futures EXCEPT ![k] =
                            [state |-> "requesting", search_context |-> query_results]
                            @@ futures[k]]
    /\ UNCHANGED << cfgVars, search, _usage, pc, ptc_phase, ptc_round, ptc_modules, cycles,
                    tool_calls, tool_result_messages, captured, succeeded, failed,
                    roundVars, synVars, consVars, drVars, issued, result >>

\* client.analyze of task k: the completion returned a response with usage and
\* _track evaluates self._usage[key] + prompt_tokens ("+=" on a dict entry is a
\* load, an add and a store, and a thread switch may fall between them)
TaskLoadsUsage(k, responses) ==
    /\ ptc_phase = "running"
    /\ k \in 1..Len(futures)
    /\ futures[k].state = Requesting
    /\ \E r \in responses :
        /\ Usage(r) > 0
        /\ futures' = [futures EXCEPT ![k] =
                            [state |-> "tracking", loaded |-> _usage, response |-> r]
                            @@ futures[k]]
    /\ UNCHANGED << cfgVars, sharedVars, pc, ptc_phase, ptc_round, ptc_modules, cycles,
                    tool_calls, tool_result_messages, captured, succeeded, failed,
                    roundVars, synVars, consVars, drVars, issued, result >>

\* ... _track stores the sum, analyze returns and the task returns its output
TaskStoresUsage(k) ==
    /\ ptc_phase = "running"
    /\ k \in 1..Len(futures)
    /\ futures[k].state = "tracking"
    /\ _usage' = futures[k].loaded + Usage(futures[k].response)
    /\ LET output == OutputOf(k, futures[k].response)
       IN  /\ futures' = [futures EXCEPT ![k] =
                              [state |-> "done", output |-> output] @@ futures[k]]
           /\ succeeded' = succeeded \cup { output }
    /\ UNCHANGED << cfgVars, search, _query_cache, pc, ptc_phase, ptc_round, ptc_modules,
                    cycles, tool_calls, tool_result_messages, captured, failed,
                    roundVars, synVars, consVars, drVars, issued, result >>

\* module.run_round1 / run_round2 of task k returns a ModuleOutput (the
\* response has no usage, nothing is tracked)
TaskReturns(k) ==
    /\ ptc_phase = "running"
    /\ k \in 1..Len(futures)
    /\ futures[k].state = Requesting
    /\ \E r \in ModuleResponses :
        /\ Usage(r) = 0
        /\ LET output == [module_name |-> futures[k].name, round |-> ptc_round,
                          analysis |-> r.analysis, flags |-> r.flags,
                          sources |-> r.sources, revised |-> (ptc_round = 2)]
           IN  /\ futures' = [futures EXCEPT ![k] =
                              [tc_id |-> @.tc_id, name |-> @.name, state |-> "done",
                               peer_context |-> @.peer_context,
                               prior_analysis |-> @.prior_analysis,
                               output |-> output]]
               /\ succeeded' = succeeded \cup { output }
    /\ UNCHANGED << cfgVars, sharedVars, pc, ptc_phase, ptc_round, ptc_modules, cycles, tool_calls,
                    tool_result_messages, captured, failed,
                    roundVars, synVars, consVars, drVars, issued, result >>

\* ... or raises
TaskRaises(k) ==
    /\ ptc_phase = "running"
    /\ k \in 1..Len(futures)
    /\ futures[k].state = Requesting
    /\ futures' = [futures EXCEPT ![k].state = "error"]
    /\ failed' = failed \cup { futures[k].name }
    /\ UNCHANGED << cfgVars, sharedVars, pc, ptc_phase, ptc_round, ptc_modules, cycles, tool_calls,
                    tool_result_messages, captured, succeeded,
                    roundVars, synVars, consVars, drVars, issued, result >>

\* captured[name] = output on an insertion-ordered dict
DictPut(d, name, output) ==
    IF \E i \in 1..Len(d) : d[i].name = name
    THEN [i \in 1..Len(d) |-> IF d[i].name = name THEN [name |-> name, output |-> output] ELSE d[i]]
    ELSE Append(d, [name |-> name, output |-> output])

\* a faulty result loop: the first task that raised ends the collection, the
\* tasks after it are not collected
RECURSIVE CollectFrom_until_error(_, _, _)
CollectFrom_until_error(k, cap, msgs) ==
    IF k > Len(futures)
    THEN [captured |-> cap, tool_result_messages |-> msgs]
    ELSE LET f == futures[k]
         IN  IF f.state = "done"
             THEN CollectFrom_until_error(k + 1, DictPut(cap, f.name, f.output),
                              Append(msgs, [tool_call_id |-> f.tc_id, content |-> "ok"]))
             ELSE [captured |-> cap,
                   tool_result_messages |->
                       Append(msgs, [tool_call_id |-> f.tc_id, content |-> "error"])]

\* for f, (tc_id, name) in futures.items(): captured / tool_result_messages
RECURSIVE CollectFrom(_, _, _)
CollectFrom(k, cap, msgs) ==
    IF k > Len(futures)
    THEN [captured |-> cap, tool_result_messages |-> msgs]
    ELSE LET f == futures[k]
         IN  IF f.state = "done"
             THEN CollectFrom(k + 1, DictPut(cap, f.name, f.output),
                              Append(msgs, [tool_call_id |-> f.tc_id, content |-> "ok"]))
             ELSE CollectFrom(k + 1, cap,
                              Append(msgs, [tool_call_id |-> f.tc_id, content |-> "error"]))

\* a faulty result loop: it does not wait for the tasks that are still running,
\* and goes back to the service with what has completed
CollectResults_not_waiting ==
    /\ ptc_phase = "running"
    /\ LET c == CollectFrom(1, captured, << >>)
       IN  /\ captured' = c.captured
           /\ tool_result_messages' = c.tool_result_messages
    /\ ptc_phase' = "request"
    /\ UNCHANGED << cfgVars, sharedVars, pc, ptc_round, ptc_modules, cycles, tool_calls, futures,
                    succeeded, failed,
                    roundVars, synVars, consVars, drVars, issued, result >>

\* The result loop calls f.result() on the futures in submission order, so it
\* ends when every task of the cycle has completed; the executor's with-block
\* is left, the messages are appended and the loop goes back to the service.
\* The loop only writes locals of run_ptc_round, so it is one step here.
CollectResults ==
    /\ ptc_phase = "running"
    /\ \A k \in 1..Len(futures) : futures[k].state \in { "done", "error" }
    /\ LET c == CollectFrom(1, captured, << >>)
       IN  /\ captured' = c.captured
           /\ tool_result_messages' = c.tool_result_messages
    /\ ptc_phase' = "request"
    /\ UNCHANGED << cfgVars, sharedVars, pc, ptc_round, ptc_modules, cycles, tool_calls, futures,
                    succeeded, failed,
                    roundVars, synVars, consVars, drVars, issued, result >>

(***************************************************************************)
(* Mediator._select_modules                                                *)
(***************************************************************************)
\* raw_ad_hoc[:3]
AdHocCap == 3

\* an element of ad_hoc_modules that is not a JSON object
NotADict == [not_a_dict |-> TRUE]

IsDict(item) == item # NotADict

AdHoc(name, system_prompt) == [name |-> name, system_prompt |-> system_prompt]

\* for item in raw_ad_hoc[:3]: skip what is no dict, has no name or no prompt,
\* or collides with an existing name; existing_names grows with each addition
RECURSIVE AdHocScan(_, _, _, _)
AdHocScan(raw, i, existing_names, ad_hoc_modules) ==
    IF i > Len(raw)
    THEN ad_hoc_modules
    ELSE LET item == raw[i]
         IN  IF \/ ~IsDict(item)
                \/ item.name = ""
                \/ item.system_prompt = ""
                \/ item.name \in existing_names
             THEN AdHocScan(raw, i + 1, existing_names, ad_hoc_modules)
             ELSE AdHocScan(raw, i + 1, existing_names \cup { item.name },
                            Append(ad_hoc_modules, item))

\* a faulty gap check: every item of the response is scanned
AdHocModules_uncapped(raw_ad_hoc, selected, prompts) ==
    AdHocScan(raw_ad_hoc, 1, prompts \cup Names(selected), << >>)

AdHocModules(raw_ad_hoc, selected, prompts) ==
    LET n == IF Len(raw_ad_hoc) < AdHocCap THEN Len(raw_ad_hoc) ELSE AdHocCap
    IN  AdHocScan(SubSeq(raw_ad_hoc, 1, n), 1, prompts \cup Names(selected), << >>)

AdHocNames(ad_hoc_modules) == [i \in 1..Len(ad_hoc_modules) |-> ad_hoc_modules[i].name]

\* [n for n in selected_names if n in MODULE_SYSTEM_PROMPTS]
ValidSelected(selected, prompts) == SelectSeq(selected, LAMBDA n : n \in prompts)

\* the variables _select_modules does not touch
pipeVars == << ptcVars, roundVars, synVars, consVars, drVars, issued, result,
              sharedVars >>

\* a faulty fallback: the roster is left as it was and the selection is
\* reported as made
FallBackToDefaults_reporting_selection ==
    /\ fell_back' = TRUE
    /\ selected_names' = << >>
    /\ selection_metadata' =
          [auto_selected |-> TRUE, selected_modules |-> modules, ad_hoc_modules |-> << >>]
    /\ pc' = "round1"
    /\ UNCHANGED << modules, deactivated_modules, MODULE_SYSTEM_PROMPTS >>

\* logger.warning / logger.error, self._init_default_modules() and return,
\* from inside _select_modules
FallBackToDefaults ==
    /\ fell_back' = TRUE
    /\ modules' = ActiveOf(MODULE_REGISTRY, weights)
    /\ deactivated_modules' = DeactivatedOf(MODULE_REGISTRY, weights)
    /\ selected_names' = << >>
    /\ pc' = "round1"
    /\ UNCHANGED << selection_metadata, MODULE_SYSTEM_PROMPTS >>

\* step 1: the selection request returns
SelectionReturns(responses) ==
    /\ pc = "select"
    /\ \E r \in responses :
          LET valid == ValidSelected(r.selected_modules, MODULE_SYSTEM_PROMPTS)
          IN  IF valid = << >>
              THEN FallBackToDefaults
              ELSE /\ selected_names' = valid
                   /\ pc' = "gap_check"
                   /\ UNCHANGED << modules, deactivated_modules, selection_metadata,
                                   fell_back, MODULE_SYSTEM_PROMPTS >>
    /\ UNCHANGED << problem, weights, deep_research, auto_select, pipeVars >>

\* step 1 raises (the request, or a response that is no object)
SelectionRaises ==
    /\ pc = "select"
    /\ FallBackToDefaults
    /\ UNCHANGED << problem, weights, deep_research, auto_select, pipeVars >>

\* a faulty step 2: the selected and the added modules become the roster as
\* they are, the weight-0 deactivation is not applied
GapCheckReturns_without_veto(responses) ==
    /\ pc = "gap_check"
    /\ \E r \in responses :
          LET ad_hoc_modules == AdHocModules(r.ad_hoc_modules, selected_names,
                                             MODULE_SYSTEM_PROMPTS)
              candidates == selected_names \o AdHocNames(ad_hoc_modules)
          IN  /\ deactivated_modules' = << >>
              /\ modules' = candidates
              /\ MODULE_SYSTEM_PROMPTS' =
                    MODULE_SYSTEM_PROMPTS \cup (Names(candidates) \ Names(MODULE_REGISTRY))
              /\ selection_metadata' =
                    [auto_selected |-> TRUE,
                     selected_modules |-> candidates,
                     ad_hoc_modules |-> ad_hoc_modules]
    /\ pc' = "round1"
    /\ UNCHANGED << problem, weights, deep_research, auto_select, selected_names,
                    fell_back, pipeVars >>

\* step 2: the gap-check request returns; modules are instantiated
\* (create_dynamic_module registers the prompt of each dynamic module), then
\* the weight-0 deactivation is applied
GapCheckReturns(responses) ==
    /\ pc = "gap_check"
    /\ \E r \in responses :
          LET ad_hoc_modules == AdHocModules(r.ad_hoc_modules, selected_names,
                                             MODULE_SYSTEM_PROMPTS)
              candidates == selected_names \o AdHocNames(ad_hoc_modules)
          IN  /\ deactivated_modules' = DeactivatedOf(candidates, weights)
              /\ modules' = ActiveOf(candidates, weights)
              /\ MODULE_SYSTEM_PROMPTS' =
                    MODULE_SYSTEM_PROMPTS \cup (Names(candidates) \ Names(MODULE_REGISTRY))
              /\ selection_metadata' =
                    [auto_selected |-> TRUE,
                     selected_modules |-> ActiveOf(candidates, weights),
                     ad_hoc_modules |-> ad_hoc_modules]
    /\ pc' = "round1"
    /\ UNCHANGED << problem, weights, deep_research, auto_select, selected_names,
                    fell_back, pipeVars >>

\* step 2 raises (the request, or an ad_hoc_modules value that cannot be read)
GapCheckRaises ==
    /\ pc = "gap_check"
    /\ FallBackToDefaults
    /\ UNCHANGED << problem, weights, deep_research, auto_select, pipeVars >>

\* what client.analyze returns to the selection and the gap-check request
SelectionResponses ==
    { [selected_modules |-> << "cost", "legal" >>],
      [selected_modules |-> << "nonexistent" >>] }

GapCheckResponses ==
    { [ad_hoc_modules |-> << AdHoc("custom", "p"), AdHoc("extra", "p"), AdHoc("cost", "p") >>] }

(***************************************************************************)
(* Mediator.analyze                                                        *)
(***************************************************************************)
Round1 ==
    /\ pc = "round1"
    /\ ptc_phase = "idle"
    /\ StartPtc(1, modules)
    /\ pc' = "in_round1"
    /\ issued' = issued \cup { "round1" }
    /\ UNCHANGED << cfgVars, sharedVars, roundVars, synVars, consVars, drVars, result >>

Round2 ==
    /\ pc = "round2"
    /\ ptc_phase = "idle"
    /\ eligible_modules' = EligibleModules(modules, round1_outputs)
    /\ IF eligible_modules' # << >>
       THEN /\ StartPtc(2, eligible_modules')
            /\ pc' = "in_round2"
            /\ issued' = issued \cup { "round2" }
       ELSE /\ pc' = "synthesis"
            /\ captured' = << >>
            /\ succeeded' = {}
            /\ failed' = {}
            /\ UNCHANGED << ptc_phase, ptc_round, ptc_modules, cycles, tool_calls,
                            futures, tool_result_messages, issued >>
    /\ UNCHANGED << cfgVars, sharedVars, round1_outputs, round2_outputs, ptc_returned,
                    synVars, consVars, drVars, result >>

AllOutputs == round1_outputs \o round2_outputs

\* build_synthesis_prompt(problem, all_output_dicts, weights=...,
\* deactivated_modules=..., raci=..., global_sources=pre_global_sources)
SynthesisRequest(pre) ==
    [sent |-> TRUE,
     problem |-> problem,
     all_outputs |-> _consolidate_sources(AllOutputs, EmptySynthesis).remapped_outputs,
     weights |-> weights,
     deactivated_modules |-> deactivated_modules,
     global_sources |-> pre]

\* a faulty round 3: the synthesis request is sent whether or not there is any
\* module output
Synthesis_unguarded(responses) ==
    /\ pc = "synthesis"
    /\ pre_global_sources' =
          _consolidate_sources(AllOutputs, EmptySynthesis).global_sources
    /\ synthesis_request' = SynthesisRequest(pre_global_sources')
    /\ issued' = issued \cup { "synthesis" }
    /\ \/ synthesis_result' \in responses
       \/ synthesis_result' = EmptySynthesis
    /\ pc' = "final"
    /\ captured' = << >>
    /\ succeeded' = {}
    /\ failed' = {}
    /\ UNCHANGED << cfgVars, sharedVars, ptc_phase, ptc_round, ptc_modules, cycles, tool_calls,
                    futures, tool_result_messages, roundVars, consVars, drVars, result >>

\* "Round 3": pre-consolidation, then the synthesis request, which may raise
Synthesis(responses) ==
    /\ pc = "synthesis"
    /\ IF AllOutputs # << >>
       THEN /\ pre_global_sources' =
                  _consolidate_sources(AllOutputs, EmptySynthesis).global_sources
            /\ synthesis_request' = SynthesisRequest(pre_global_sources')
            /\ issued' = issued \cup { "synthesis" }
            /\ \/ synthesis_result' \in responses
               \/ synthesis_result' = EmptySynthesis
       ELSE /\ synthesis_result' = EmptySynthesis
            /\ UNCHANGED << pre_global_sources, synthesis_request, issued >>
    /\ pc' = "final"
    /\ captured' = << >>
    /\ succeeded' = {}
    /\ failed' = {}
    /\ UNCHANGED << cfgVars, sharedVars, ptc_phase, ptc_round, ptc_modules, cycles, tool_calls,
                    futures, tool_result_messages, roundVars, consVars, drVars, result >>

\* Conflict(**c): pydantic rejects a severity outside the Literal
ConflictsValid(cs) == \A i \in 1..Len(cs) : cs[i].severity \in Severities

\* final consolidation and Conflict construction
FinalConsolidate ==
    /\ pc = "final"
    /\ LET c == _consolidate_sources(AllOutputs, synthesis_result)
       IN  IF c.raised \/ ~ConflictsValid(c.remapped_synthesis.conflicts)
           THEN /\ pc' = "raised"
                /\ UNCHANGED consVars
           ELSE /\ global_sources' = c.global_sources
                /\ remapped_outputs' = c.remapped_outputs
                /\ remapped_synthesis' = c.remapped_synthesis
                /\ conflicts' = c.remapped_synthesis.conflicts
                /\ pc' = IF deep_research THEN "deep_research" ELSE "build"
    /\ UNCHANGED << cfgVars, sharedVars, ptcVars, roundVars, synVars, drVars, issued, result >>

\* a faulty submission: only as many items as the pool has workers are
\* submitted
DeepResearch_pool_sized ==
    /\ pc = "deep_research"
    /\ LET its == ResearchItems(conflicts, remapped_synthesis.priority_flags)
       IN  /\ items' = SubSeq(its, 1, PoolSize(its))
           /\ pc' = IF its = << >> THEN "build" ELSE "resolving"
    /\ item_running' = {}
    /\ item_done' = {}
    /\ item_failed' = {}
    /\ resolution_requests' = << >>
    /\ results' = << >>
    /\ conflict_resolutions' = << >>
    /\ UNCHANGED << cfgVars, sharedVars, ptcVars, roundVars, synVars, consVars, issued, result >>

\* _run_deep_research up to the submission of the items
DeepResearch ==
    /\ pc = "deep_research"
    /\ LET its == ResearchItems(conflicts, remapped_synthesis.priority_flags)
       IN  /\ items' = its
           /\ pc' = IF its = << >> THEN "build" ELSE "resolving"
    /\ item_running' = {}
    /\ item_done' = {}
    /\ item_failed' = {}
    /\ resolution_requests' = << >>
    /\ results' = << >>
    /\ conflict_resolutions' = << >>
    /\ UNCHANGED << cfgVars, sharedVars, ptcVars, roundVars, synVars, consVars, issued, result >>

\* a free worker of the pool takes the next submitted item (the work queue is
\* first in, first out) and resolve_item sends the item's resolution request
ResolveStarts(i) ==
    /\ pc = "resolving"
    /\ i \in 1..Len(items)
    /\ item_running \cup item_done = 1..(i - 1)
    /\ Cardinality(item_running) < PoolSize(items)
    /\ item_running' = item_running \cup { i }
    /\ resolution_requests' = Append(resolution_requests, items[i])
    /\ issued' = issued \cup { "resolution" }
    /\ UNCHANGED << cfgVars, sharedVars, pc, ptcVars, roundVars, synVars, consVars, items,
                    item_done, item_failed, results, conflict_resolutions, result >>

\* resolve_item(items[i]) completes: the request returned a response ...
ResolveReturns(i, responses) ==
    /\ pc = "resolving"
    /\ i \in item_running
    /\ \E r \in responses : results' = Append(results, ResolutionOf(items[i], r))
    /\ item_running' = item_running \ { i }
    /\ item_done' = item_done \cup { i }
    /\ UNCHANGED << cfgVars, sharedVars, pc, ptcVars, roundVars, synVars, consVars, items,
                    item_failed, resolution_requests, conflict_resolutions,
                    issued, result >>

\* ... or raised, and the item is dropped
ResolveRaises(i) ==
    /\ pc = "resolving"
    /\ i \in item_running
    /\ item_running' = item_running \ { i }
    /\ item_done' = item_done \cup { i }
    /\ item_failed' = item_failed \cup { i }
    /\ UNCHANGED << cfgVars, sharedVars, pc, ptcVars, roundVars, synVars, consVars, items,
                    resolution_requests, results, conflict_resolutions,
                    issued, result >>

\* all futures completed: restore the order, fold the sources into the index
DeepResearchDone ==
    /\ pc = "resolving"
    /\ item_done = 1..Len(items)
    /\ LET ordered == RestoreOrder(results, items)
           c == _consolidate_resolution_sources(global_sources, ordered)
       IN  IF ordered # << >>
           THEN /\ global_sources' = c.global_sources
                /\ conflict_resolutions' = c.resolutions
           ELSE /\ conflict_resolutions' = << >>
                /\ UNCHANGED global_sources
    /\ pc' = "build"
    /\ UNCHANGED << cfgVars, sharedVars, ptcVars, roundVars, synVars, remapped_outputs,
                    remapped_synthesis, conflicts, items, item_running, item_done,
                    item_failed, resolution_requests, results, issued, result >>

RECURSIVE SumSources(_)
SumSources(outs) ==
    IF outs = << >> THEN 0 ELSE Len(Head(outs).sources) + SumSources(Tail(outs))

\* FinalAnalysis(...)
FinalAnalysis ==
    [returned |-> TRUE,
     problem |-> problem,
     module_outputs |-> remapped_outputs,
     conflicts |-> conflicts,
     synthesis |-> remapped_synthesis.synthesis,
     recommendations |-> remapped_synthesis.recommendations,
     priority_flags |-> remapped_synthesis.priority_flags,
     sources |-> global_sources,
     conflict_resolutions |-> conflict_resolutions,
     selection_metadata |-> selection_metadata,
     modules_attempted |-> Len(modules),
     modules_completed |-> Len(round1_outputs),
     sources_claimed |-> SumSources(AllOutputs)]

Return ==
    /\ pc = "build"
    /\ result' = FinalAnalysis
    /\ pc' = "returned"
    /\ UNCHANGED << cfgVars, sharedVars, ptcVars, roundVars, synVars, consVars, drVars, issued >>

Next ==
    \/ SelectionReturns(SelectionResponses)
    \/ SelectionRaises
    \/ GapCheckReturns(GapCheckResponses)
    \/ GapCheckRaises
    \/ Round1
    \/ PtcRequestRaises
    \/ PtcRequestEnds
    \/ PtcRequestBatch
    \/ \E k \in 1..MaxBatch : TaskReturns(k)
    \/ \E k \in 1..MaxBatch : TaskRaises(k)
    \/ CollectResults
    \/ Round2
    \/ Synthesis(SynthesisResponses)
    \/ FinalConsolidate
    \/ DeepResearch
    \/ \E i \in 1..Len(items) : ResolveStarts(i)
    \/ \E i \in 1..Len(items) : ResolveReturns(i, ResolutionResponses)
    \/ \E i \in 1..Len(items) : ResolveRaises(i)
    \/ DeepResearchDone
    \/ Return

Spec == Init /\ [][Next]_vars

(***************************************************************************)
(* The consolidator on its own: analyze stands before the final            *)
(* consolidation with any round outputs and any synthesis response over    *)
(* RichSources, and runs from there to its return                          *)
(***************************************************************************)
RichSources == { SrcA1, SrcB1, SrcN2, SrcNoUrl }

\* a text citing every number 0..MaxCite (in range, dropped, out of range),
\* one of them twice
ProbeText == << "w" >> \o [i \in 1..(MaxCite + 1) |-> Marker(i - 1)] \o << "w", "[1]" >>

ProbeFlag == << "yellow:", "[2]", "[1]" >>

RichOutput(name, round, sources) ==
    [module_name |-> name, round |-> round,
     analysis |-> [summary |-> ProbeText],
     flags |-> << ProbeFlag >>,
     sources |-> sources,
     revised |-> (round = 2)]

RichSourceLists == SeqsUpTo(RichSources, MaxSrc)

\* (round1_outputs, round2_outputs): one module, with or without its round 2,
\* whose revision names one source at most
RichRounds ==
    { << << RichOutput("market", 1, s1) >>, << >> >> : s1 \in RichSourceLists }
    \cup { << << RichOutput("market", 1, s1) >>, << RichOutput("market", 2, s2) >> >> :
              s1 \in RichSourceLists, s2 \in SeqsUpTo(RichSources, 1) }

\* a synthesis response that cites its one source only, a source whose title
\* begins with a number of its own ("1. 2. E https://u3")
CitingSynthesis ==
    [conflicts |-> << [modules |-> << "market" >>, topic |-> << "burn" >>,
                       description |-> << "w", "[1]" >>, severity |-> "low"] >>,
     synthesis |-> << "[1]", "w" >>,
     recommendations |-> << << "[1]" >> >>,
     priority_flags |-> << << "yellow:", "[1]" >> >>,
     sources |-> << Src(2, "E", "u3") >>]

\* a synthesis response with two sources of its own, cited in every text
TwoSourceSynthesis ==
    [conflicts |-> << [modules |-> << "market" >>, topic |-> << "burn" >>,
                       description |-> ProbeText, severity |-> "high"] >>,
     synthesis |-> ProbeText,
     recommendations |-> << ProbeText >>,
     priority_flags |-> << ProbeFlag >>,
     sources |-> << SrcN1, SrcD3 >>]

RichSynthesisResponses ==
    { [conflicts |-> << [modules |-> << "market" >>, topic |-> << "burn" >>,
                         description |-> ProbeText, severity |-> "high"] >>,
       synthesis |-> ProbeText,
       recommendations |-> << ProbeText >>,
       priority_flags |-> << ProbeFlag >>,
       sources |-> ss] : ss \in SeqsUpTo(RichSources, 1) }
    \cup { CitingSynthesis, TwoSourceSynthesis }

RichResolutionResponses ==
    { [verdict |-> ProbeText, updated_recommendation |-> ProbeFlag, sources |-> ss] :
        ss \in { << SrcD3 >>, << SrcB1, SrcNoUrl >>, << SrcNoUrl, Src(2, "E", "u2") >>,
                 << SrcB1, SrcD3 >> } }

InitCons ==
    /\ problem \in Problems
    /\ weights = [legal |-> 0, scalability |-> 0]
    /\ deep_research = TRUE
    /\ auto_select = FALSE
    /\ selected_names = << >>
    /\ selection_metadata = NoMetadata
    /\ fell_back = FALSE
    /\ MODULE_SYSTEM_PROMPTS = ALL_MODULE_NAMES
    /\ modules = ActiveOf(MODULE_REGISTRY, weights)
    /\ deactivated_modules = DeactivatedOf(MODULE_REGISTRY, weights)
    /\ pc = "final"
    /\ search = FALSE
    /\ PipelineIdle
    /\ \E rr \in RichRounds :
        /\ round1_outputs = rr[1]
        /\ round2_outputs = rr[2]
        /\ eligible_modules = EligibleModules(modules, rr[1])
        /\ ptc_returned = [called |-> TRUE, raised |-> FALSE, value |-> rr[2]]
        /\ pre_global_sources =
              _consolidate_sources(rr[1] \o rr[2], EmptySynthesis).global_sources
        /\ synthesis_request = SynthesisRequest(pre_global_sources)
    /\ synthesis_result \in RichSynthesisResponses \cup { EmptySynthesis }
    /\ NothingConsolidated
    /\ issued = { "round1", "round2", "synthesis" }

NextCons ==
    \/ FinalConsolidate
    \/ DeepResearch
    \/ \E i \in 1..Len(items) : ResolveStarts(i)
    \/ \E i \in 1..Len(items) : ResolveReturns(i, RichResolutionResponses)
    \/ \E i \in 1..Len(items) : ResolveRaises(i)
    \/ DeepResearchDone
    \/ Return

SpecCons == InitCons /\ [][NextCons]_vars

(***************************************************************************)
(* The roster resolution on its own: a mediator is constructed, and with   *)
(* auto_select analyze runs _select_modules on any selection and gap-check *)
(* response, up to the point where round 1 is dispatched                   *)
(***************************************************************************)
RichWeightConfigs ==
    { [legal |-> 0],
      [market |-> 0, legal |-> 0, political |-> 0, a1 |-> 0, a4 |-> 0] }

RichSelectionResponses ==
    { [selected_modules |-> sel] :
        sel \in SeqsUpTo({ "market", "legal", "political", "nonexistent" }, MaxSelected) }

RichAdHocItems ==
    { AdHoc("a1", "p"), AdHoc("a2", "p"), AdHoc("a3", "p"), AdHoc("a4", "p"),
      AdHoc("political", "p"), AdHoc("", "p"), NotADict }

RichGapCheckResponses ==
    { [ad_hoc_modules |-> raw] : raw \in SeqsUpTo(RichAdHocItems, MaxAdHocRaw) }

InitSel ==
    /\ problem \in Problems
    /\ auto_select \in BOOLEAN
    /\ weights \in RichWeightConfigs
    /\ deep_research = FALSE
    /\ Constructed
    /\ search = FALSE
    /\ PipelineIdle
    /\ ptc_returned = NotCalled
    /\ round1_outputs = << >>
    /\ round2_outputs = << >>
    /\ eligible_modules = << >>
    /\ synthesis_result = EmptySynthesis
    /\ pre_global_sources = << >>
    /\ synthesis_request = NoRequest
    /\ NothingConsolidated
    /\ issued = {}

NextSel ==
    \/ SelectionReturns(RichSelectionResponses)
    \/ SelectionRaises
    \/ GapCheckReturns(RichGapCheckResponses)
    \/ GapCheckRaises

SpecSel == InitSel /\ [][NextSel]_vars

(***************************************************************************)
(* Several analyze calls in one process: when the roster of a call is       *)
(* resolved a new mediator may be constructed and its analyze entered; the  *)
(* prompt table is a module-level dict and lives on (the rounds of a call   *)
(* only read it)                                                            *)
(***************************************************************************)
CallsSelectionResponses ==
    { [selected_modules |-> sel] :
        sel \in SeqsUpTo({ "market", "a1", "a2", "nonexistent" }, MaxSelected) }

CallsGapCheckResponses ==
    { [ad_hoc_modules |-> raw] :
        raw \in SeqsUpTo({ AdHoc("a1", "p"), AdHoc("a2", "p"), AdHoc("a3", "p"),
                           AdHoc("political", "p") }, 2) }

\* Mediator(client, weights=..., auto_select=...) and analyze(problem)
NewMediator ==
    /\ pc = "round1"
    /\ auto_select' \in BOOLEAN
    /\ weights' \in RichWeightConfigs
    /\ selected_names' = << >>
    /\ selection_metadata' = NoMetadata
    /\ fell_back' = FALSE
    /\ IF auto_select'
       THEN /\ modules' = << >>
            /\ deactivated_modules' = << >>
            /\ pc' = "select"
       ELSE /\ modules' = ActiveOf(MODULE_REGISTRY, weights')
            /\ deactivated_modules' = DeactivatedOf(MODULE_REGISTRY, weights')
            /\ pc' = "round1"
    /\ UNCHANGED << problem, deep_research, MODULE_SYSTEM_PROMPTS, pipeVars >>

NextCalls ==
    \/ SelectionReturns(CallsSelectionResponses)
    \/ SelectionRaises
    \/ GapCheckReturns(CallsGapCheckResponses)
    \/ GapCheckRaises
    \/ NewMediator

SpecCalls == InitSel /\ [][NextCalls]_vars

(***************************************************************************)
(* Deep research on its own: analyze stands before the final consolidation *)
(* with a synthesis response that yields more items than the pool has      *)
(* workers, two of them with the same topic, and runs from there to its    *)
(* return                                                                  *)
(***************************************************************************)
ManyItemsSynthesis ==
    [conflicts |-> << [modules |-> << "market" >>, topic |-> << "burn" >>,
                       description |-> << "w", "[1]" >>, severity |-> "high"],
                      [modules |-> << "tech" >>, topic |-> << "stack" >>,
                       description |-> << "w" >>, severity |-> "low"],
                      [modules |-> << "market", "cost" >>, topic |-> << "burn" >>,
                       description |-> << "w" >>, severity |-> "critical"],
                      [modules |-> << "legal" >>, topic |-> << "x" >>,
                       description |-> << "w" >>, severity |-> "medium"] >>,
     synthesis |-> << "w" >>,
     recommendations |-> << >>,
     priority_flags |-> << << "red:", "ops" >>, << "red:", "Burn", "rate" >>,
                           << "yellow:", "cash" >>, << "RED:", "hiring" >>,
                           << "red:", "legal" >>, << "red:", "tax" >> >>,
     sources |-> << >>]

FewItemsSynthesis ==
    [conflicts |-> << [modules |-> << "tech" >>, topic |-> << "stack" >>,
                       description |-> << "w" >>, severity |-> "critical"],
                      [modules |-> << "market" >>, topic |-> << "burn" >>,
                       description |-> << "w" >>, severity |-> "medium"] >>,
     synthesis |-> << "w" >>,
     recommendations |-> << >>,
     priority_flags |-> << << "yellow:", "cash" >>, << "red:", "burn" >>,
                           << "red:", "Stack", "w" >> >>,
     sources |-> << >>]

DRSynthesisResponses == { ManyItemsSynthesis, FewItemsSynthesis }

DRResolutionResponses ==
    { [verdict |-> << "w", "[1]" >>, updated_recommendation |-> << "[1]" >>,
       sources |-> << SrcD3 >>] }

InitDR ==
    /\ problem \in Problems
    /\ weights = [legal |-> 0, scalability |-> 0]
    /\ deep_research = TRUE
    /\ auto_select = FALSE
    /\ selected_names = << >>
    /\ selection_metadata = NoMetadata
    /\ fell_back = FALSE
    /\ MODULE_SYSTEM_PROMPTS = ALL_MODULE_NAMES
    /\ modules = ActiveOf(MODULE_REGISTRY, weights)
    /\ deactivated_modules = DeactivatedOf(MODULE_REGISTRY, weights)
    /\ pc = "final"
    /\ search = FALSE
    /\ PipelineIdle
    /\ round1_outputs = << RichOutput("market", 1, << SrcA1 >>) >>
    /\ round2_outputs = << >>
    /\ eligible_modules = EligibleModules(modules, round1_outputs)
    /\ ptc_returned = [called |-> TRUE, raised |-> FALSE, value |-> << >>]
    /\ pre_global_sources =
          _consolidate_sources(round1_outputs, EmptySynthesis).global_sources
    /\ synthesis_request = SynthesisRequest(pre_global_sources)
    /\ synthesis_result \in DRSynthesisResponses
    /\ NothingConsolidated
    /\ issued = { "round1", "round2", "synthesis" }

NextDR ==
    \/ FinalConsolidate
    \/ DeepResearch
    \/ \E i \in 1..Len(items) : ResolveStarts(i)
    \/ \E i \in 1..Len(items) : ResolveReturns(i, DRResolutionResponses)
    \/ \E i \in 1..Len(items) : ResolveRaises(i)
    \/ DeepResearchDone
    \/ Return

SpecDR == InitDR /\ [][NextDR]_vars

(***************************************************************************)
(* The tasks of a round on their own: a mediator with a searcher runs      *)
(* round 1, every task builds its search context through the searcher and  *)
(* gets a response with usage through the client                           *)
(***************************************************************************)
\* the query an LLM generated for a module (one per task)
Queries == { "q1", "q2" }

\* what the search backend returns for a query
SearchResults == { << "s1" >> }

UsageResponses ==
    { [analysis |-> [summary |-> << "w", "[1]" >>], flags |-> << >>,
       sources |-> << SrcA1 >>, usage |-> 1] }

InitTasks ==
    /\ problem \in Problems
    /\ auto_select = FALSE
    /\ weights = [tech |-> 0, legal |-> 0, scalability |-> 0]
    /\ deep_research = FALSE
    /\ Constructed
    /\ search = TRUE
    /\ PipelineIdle
    /\ ptc_returned = NotCalled
    /\ round1_outputs = << >>
    /\ round2_outputs = << >>
    /\ eligible_modules = << >>
    /\ synthesis_result = EmptySynthesis
    /\ pre_global_sources = << >>
    /\ synthesis_request = NoRequest
    /\ NothingConsolidated
    /\ issued = {}

NextTasks ==
    \/ Round1
    \/ PtcRequestRaises
    \/ PtcRequestEnds
    \/ PtcRequestBatch
    \/ \E k \in 1..MaxBatch : TaskCacheLookup(k, Queries)
    \/ \E k \in 1..MaxBatch : TaskCacheStore(k, SearchResults)
    \/ \E k \in 1..MaxBatch : TaskLoadsUsage(k, UsageResponses)
    \/ \E k \in 1..MaxBatch : TaskStoresUsage(k)
    \/ \E k \in 1..MaxBatch : TaskRaises(k)
    \/ CollectResults

SpecTasks == InitTasks /\ [][NextTasks]_vars

(***************************************************************************)
(* analyze under fair scheduling: a mediator with the static roster runs    *)
(* the whole pipeline; every step of analyze that can be taken is taken,    *)
(* every remote call returns or raises, every pool worker runs, and the     *)
(* service ends each dispatch round (within MaxCycles exchange cycles)      *)
(***************************************************************************)
InitLive ==
    /\ problem \in Problems
    /\ auto_select = FALSE
    /\ weights = [tech |-> 0, legal |-> 0, scalability |-> 0, market |-> 2]
    /\ deep_research \in BOOLEAN
    /\ Constructed
    /\ search = FALSE
    /\ PipelineIdle
    /\ ptc_returned = NotCalled
    /\ round1_outputs = << >>
    /\ round2_outputs = << >>
    /\ eligible_modules = << >>
    /\ synthesis_result = EmptySynthesis
    /\ pre_global_sources = << >>
    /\ synthesis_request = NoRequest
    /\ NothingConsolidated
    /\ issued = {}

\* the steps analyze and run_ptc_round take on their own thread
MainSteps ==
    \/ Round1
    \/ CollectResults
    \/ Round2
    \/ FinalConsolidate
    \/ DeepResearch
    \/ DeepResearchDone
    \/ Return

\* a request of the main thread to the service comes back
ServiceAnswers ==
    \/ PtcRequestRaises
    \/ PtcRequestEnds
    \/ PtcRequestBatch
    \/ Synthesis(SynthesisResponses)

\* the request of task k comes back
TaskCompletes(k) == TaskReturns(k) \/ TaskRaises(k)

\* the request of item i comes back
ResolveCompletes(i) == ResolveReturns(i, ResolutionResponses) \/ ResolveRaises(i)

NextLive ==
    \/ MainSteps
    \/ ServiceAnswers
    \/ \E k \in 1..MaxBatch : TaskCompletes(k)
    \/ \E i \in 1..Len(items) : ResolveStarts(i)
    \/ \E i \in 1..Len(items) : ResolveCompletes(i)

Fairness ==
    /\ WF_vars(MainSteps)
    /\ WF_vars(ServiceAnswers)
    /\ \A k \in 1..MaxBatch : WF_vars(TaskCompletes(k))
    /\ WF_vars(\E i \in 1..MaxWorkers + 1 : ResolveStarts(i))
    /\ \A i \in 1..MaxWorkers + 1 : WF_vars(ResolveCompletes(i))

SpecLive == InitLive /\ [][NextLive]_vars /\ Fairness

(***************************************************************************)
(* Properties                                                              *)
(***************************************************************************)
SeqToSet(seq) == { seq[i] : i \in 1..Len(seq) }

\* every text field of a FinalAnalysis
ResultTexts(r) ==
    UNION { { r.module_outputs[i].analysis[k] : k \in DOMAIN r.module_outputs[i].analysis }
            \cup SeqToSet(r.module_outputs[i].flags) : i \in 1..Len(r.module_outputs) }
    \cup { r.synthesis }
    \cup { r.conflicts[i].description : i \in 1..Len(r.conflicts) }
    \cup SeqToSet(r.recommendations)
    \cup SeqToSet(r.priority_flags)
    \cup UNION { { r.conflict_resolutions[i].verdict,
                   r.conflict_resolutions[i].updated_recommendation } :
                 i \in 1..Len(r.conflict_resolutions) }

\* C1: in every FinalAnalysis returned by analyze, each "[N]" left in any text
\* field (module analysis and flags, synthesis, conflict descriptions,
\* recommendations, priority flags, resolution verdicts and updated
\* recommendations) has 1 <= N <= len(sources).  The code does not keep this:
\* a synthesis marker without a mapping is left as it is, and a synthesis
\* marker pointing at a URL-less synthesis source becomes "[0]".
C1_MarkersResolve ==
    result.returned =>
        \A t \in ResultTexts(result) : CitedIn(t) \subseteq 1..Len(result.sources)

\* the source strings the module outputs carry, before consolidation
RawModuleSources == UNION { SeqToSet(AllOutputs[i].sources) : i \in 1..Len(AllOutputs) }

UrlsDistinct(srcs) ==
    \A i, j \in 1..Len(srcs) :
        (i # j /\ _extract_url_from_source(srcs[i]) # "")
            => _extract_url_from_source(srcs[i]) # _extract_url_from_source(srcs[j])

\* C2: the global sources list never holds two entries with the same URL:
\* not after the pre-consolidation, not after the main consolidation of the
\* module outputs and the synthesis sources, not after the deep-research pass
\* has extended the list, and not in the FinalAnalysis returned.
C2_NoTwoEntriesShareUrl ==
    /\ UrlsDistinct(pre_global_sources)
    /\ UrlsDistinct(global_sources)
    /\ result.returned => UrlsDistinct(result.sources)

\* the deep-research pass has run on a list of two entries or more, built from
\* module sources that repeat a URL under two titles, and a resolution brought
\* a URL the list already had
C2_Witness ==
    /\ pc = "build"
    /\ conflict_resolutions # << >>
    /\ Len(global_sources) >= 2
    /\ \E a, b \in RawModuleSources : a.url # "" /\ a.url = b.url /\ a.title # b.title
    /\ \E i \in 1..Len(results) : \E k \in 1..Len(results[i].sources) :
          \E g \in 1..Len(_consolidate_sources(AllOutputs, synthesis_result).global_sources) :
              results[i].sources[k].url = global_sources[g].url

\* local position n of a sources list names no URL-bearing source
DeadCitation(n, sources) ==
    \/ n \notin 1..Len(sources)
    \/ _extract_url_from_source(_strip_source_prefix(sources[n])) = ""

\* out is text with every dead marker deleted, every other token in place, and
\* every live marker pointing at an entry that has the URL of the source cited
DroppedAndResolved(text, out, sources, entries) ==
    LET kept == SelectSeq(text, LAMBDA t : IsMarker(t) => ~DeadCitation(MarkerNum(t), sources))
    IN  /\ Len(out) = Len(kept)
        /\ \A i \in 1..Len(kept) :
              IF IsMarker(kept[i])
              THEN /\ IsMarker(out[i])
                   /\ MarkerNum(out[i]) \in 1..Len(entries)
                   /\ entries[MarkerNum(out[i])].url = sources[MarkerNum(kept[i])].url
              ELSE out[i] = kept[i]

SourceLists == [i \in 1..Len(AllOutputs) |-> AllOutputs[i].sources]
                   \o << synthesis_result.sources >>

IndexMaps ==
    LET maps == SourceMaps(AllOutputs, synthesis_result)
    IN  maps.output_maps \o << maps.synthesis_map >>

MainGlobalSources == SourceMaps(AllOutputs, synthesis_result).st.global_sources

UrlAt(c, k) == _extract_url_from_source(_strip_source_prefix(SourceLists[c][k]))

\* C4: any two source strings with the same URL, whatever their titles and
\* whether they stand in one output, in two module outputs or in the synthesis
\* sources, are mapped to one global index, and the entry at that index
\* contains the URL; the list analyze keeps holds that entry at that index.
C4_SameUrlSameIndex ==
    /\ \A c \in 1..Len(SourceLists) : \A k \in 1..Len(SourceLists[c]) :
          UrlAt(c, k) # "" =>
              /\ k \in DOMAIN IndexMaps[c]
              /\ IndexMaps[c][k] \in 1..Len(MainGlobalSources)
              /\ UrlIn(UrlAt(c, k), MainGlobalSources[IndexMaps[c][k]])
              /\ \A d \in 1..Len(SourceLists) : \A l \in 1..Len(SourceLists[d]) :
                    UrlAt(d, l) = UrlAt(c, k) =>
                        /\ l \in DOMAIN IndexMaps[d]
                        /\ IndexMaps[d][l] = IndexMaps[c][k]
    /\ pc \in { "deep_research", "resolving", "build", "returned" } =>
          SubSeq(global_sources, 1, Len(MainGlobalSources)) = MainGlobalSources

\* consolidated: one URL under two titles in one output, the same URL again in
\* another module output and in the synthesis sources, beside a second URL
C4_Witness ==
    /\ pc \in { "deep_research", "build" }
    /\ Len(AllOutputs) = 2
    /\ \E k, l \in 1..Len(SourceLists[1]) :
          /\ UrlAt(1, k) # "" /\ UrlAt(1, k) = UrlAt(1, l)
          /\ SourceLists[1][k].title # SourceLists[1][l].title
          /\ \E m \in 1..Len(SourceLists[2]) : UrlAt(2, m) = UrlAt(1, k)
          /\ \E n \in 1..Len(SourceLists[3]) : UrlAt(3, n) = UrlAt(1, k)
    /\ Len(global_sources) >= 2

\* C5: analyze never lets an exception escape that a module-level or
\* synthesis-level failure caused.  The code does not keep this: a synthesis
\* response with a conflict of unknown severity, or with a recommendation that
\* is not a string, makes the final consolidation raise.
C5_NeverRaises == pc # "raised"

OutputNames(outs) == { outs[i].module_name : i \in 1..Len(outs) }

\* C6: when round 1 produced no result (every task raised, or the dispatch
\* itself failed), analyze dispatches no round 2, sends no synthesis request
\* and no resolution request, does not raise, and returns a FinalAnalysis with
\* the problem text and nothing else: no module outputs, synthesis "", no
\* conflicts, recommendations, priority flags, sources or resolutions.
C6_NoRound1ResultEmptyAnalysis ==
    (pc \notin { "select", "gap_check", "round1", "in_round1" } /\ round1_outputs = << >>) =>
        /\ issued \subseteq { "round1" }
        /\ ptc_phase = "idle"
        /\ pc \in { "round2", "synthesis", "final", "deep_research", "build", "returned" }
        /\ result.returned =>
              /\ result.problem = problem
              /\ result.module_outputs = << >>
              /\ result.synthesis = << >>
              /\ result.conflicts = << >>
              /\ result.recommendations = << >>
              /\ result.priority_flags = << >>
              /\ result.sources = << >>
              /\ result.conflict_resolutions = << >>

\* analyze has returned, with deep research switched on, after a round 1 that
\* ran and produced nothing
C6_Witness ==
    /\ result.returned
    /\ deep_research
    /\ ptc_returned.called
    /\ round1_outputs = << >>

\* C7: round 2 is dispatched only for modules named in round 1's result set:
\* a module without a round-1 output is not on the round-2 dispatch list, gets
\* no round-2 task and has no round-2 output, so every round-2 output of the
\* final aggregate has a round-1 output of the same module.
C7_Round2OnlyAfterRound1 ==
    /\ ptc_round = 2 =>
          /\ SeqToSet(ptc_modules) \subseteq OutputNames(round1_outputs)
          /\ \A k \in 1..Len(futures) : futures[k].name \in OutputNames(round1_outputs)
    /\ SeqToSet(eligible_modules) \subseteq OutputNames(round1_outputs)
    /\ OutputNames(round2_outputs) \subseteq OutputNames(round1_outputs)
    /\ result.returned =>
          \A i \in 1..Len(result.module_outputs) :
              result.module_outputs[i].round = 2 =>
                  \E j \in 1..Len(result.module_outputs) :
                      /\ result.module_outputs[j].round = 1
                      /\ result.module_outputs[j].module_name =
                            result.module_outputs[i].module_name

\* analyze has returned round-2 outputs although a module of the roster had
\* no round-1 output
C7_Witness ==
    /\ result.returned
    /\ round2_outputs # << >>
    /\ OutputNames(round1_outputs) # SeqToSet(modules)
    /\ \E i \in 1..Len(result.module_outputs) : result.module_outputs[i].round = 2

\* the synthesis request was sent and raised (synthesis_result stayed {})
SynthesisFailed == "synthesis" \in issued /\ synthesis_result = EmptySynthesis

ModuleUrls ==
    { _extract_url_from_source(_strip_source_prefix(x)) : x \in RawModuleSources } \ { "" }

\* C8: when the synthesis call raises after round 1 produced a result, the
\* FinalAnalysis holds every round-1 and round-2 module output, consolidated
\* and in order, synthesis is "", conflicts, recommendations and priority flags
\* are empty, and sources is exactly the module sources that carry a URL,
\* stripped of their ordinal, one entry per URL.
C8_SynthesisFailureKeepsOutputs ==
    (result.returned /\ SynthesisFailed) =>
        /\ AllOutputs # << >>
        /\ Len(result.module_outputs) = Len(AllOutputs)
        /\ \A i \in 1..Len(AllOutputs) :
              /\ result.module_outputs[i].module_name = AllOutputs[i].module_name
              /\ result.module_outputs[i].round = AllOutputs[i].round
              /\ \A k \in DOMAIN AllOutputs[i].analysis :
                    DroppedAndResolved(AllOutputs[i].analysis[k],
                                       result.module_outputs[i].analysis[k],
                                       AllOutputs[i].sources, result.sources)
        /\ result.synthesis = << >>
        /\ result.conflicts = << >>
        /\ result.recommendations = << >>
        /\ result.priority_flags = << >>
        /\ result.conflict_resolutions = << >>
        /\ { _extract_url_from_source(x) : x \in SeqToSet(result.sources) } = ModuleUrls
        /\ Len(result.sources) = Cardinality(ModuleUrls)
        /\ SeqToSet(result.sources) \subseteq
              { _strip_source_prefix(x) : x \in RawModuleSources }

\* analyze has returned after a failed synthesis, with outputs of both rounds
\* whose sources repeat a URL under two titles and include a URL-less string
C8_Witness ==
    /\ result.returned
    /\ SynthesisFailed
    /\ round2_outputs # << >>
    /\ \E a, b \in RawModuleSources : a.url # "" /\ a.url = b.url /\ a.title # b.title
    /\ \E a \in RawModuleSources : a.url = ""
    /\ Len(result.sources) = 1

\* outs follows the roster: each name is on it, and positions grow strictly
InRosterOrder(outs, roster) ==
    /\ OutputNames(outs) \subseteq SeqToSet(roster)
    /\ \A i, j \in 1..Len(outs) :
          i < j => ModuleOrderOf(roster)[outs[i].module_name]
                      < ModuleOrderOf(roster)[outs[j].module_name]

\* C9: the ModuleOutputs a dispatch round returns are in roster order, however
\* the service ordered its invocation requests and in whatever order the tasks
\* completed; in the final aggregate the round-1 outputs come in roster order,
\* followed by the round-2 outputs in roster order.
C9_RosterOrder ==
    /\ (ptc_returned.called /\ ~ptc_returned.raised) =>
          InRosterOrder(ptc_returned.value, modules)
    /\ InRosterOrder(round1_outputs, modules)
    /\ InRosterOrder(round2_outputs, modules)
    /\ result.returned =>
          LET outs == result.module_outputs
              r1 == SelectSeq(outs, LAMBDA o : o.round = 1)
              r2 == SelectSeq(outs, LAMBDA o : o.round = 2)
          IN  /\ outs = r1 \o r2
              /\ InRosterOrder(r1, modules)
              /\ InRosterOrder(r2, modules)

\* a dispatch round has just returned two outputs or more that were captured
\* in an order that is not the roster's
C9_Witness ==
    /\ pc \in { "round2", "synthesis" }
    /\ ptc_returned.called
    /\ ~ptc_returned.raised
    /\ Len(ptc_returned.value) >= 2
    /\ Len(captured) >= 2
    /\ ~InRosterOrder(CapturedValues, modules)

\* the tasks of the cycle that returned an output for module n
DoneFor(n) == { k \in 1..Len(futures) : futures[k].state = "done" /\ futures[k].name = n }

SucceededNames == { o.module_name : o \in succeeded }

Candidates ==
    IF selection_metadata.auto_selected
    THEN selected_names \o AdHocNames(selection_metadata.ad_hoc_modules)
    ELSE MODULE_REGISTRY

RosterResolved == pc \notin { "select", "gap_check" }

\* C11: no module of weight 0 is in the active roster, whether the roster is
\* the static default, the result of a successful adaptive selection (selected
\* and dynamically defined modules) or the fallback after a failed selection;
\* the candidates removed for their weight, and only they, are listed in
\* deactivated_modules, and that list is what the synthesis request is given.
C11_WeightZeroVetoed ==
    /\ RosterResolved =>
          /\ \A i \in 1..Len(modules) : WeightOf(weights, modules[i]) # 0
          /\ Names(deactivated_modules) = { n \in Names(Candidates) : WeightOf(weights, n) = 0 }
          /\ Names(modules) = { n \in Names(Candidates) : WeightOf(weights, n) # 0 }
    /\ synthesis_request.sent =>
          /\ synthesis_request.deactivated_modules = deactivated_modules
          /\ \A i \in 1..Len(synthesis_request.deactivated_modules) :
                /\ WeightOf(weights, synthesis_request.deactivated_modules[i]) = 0
                /\ synthesis_request.deactivated_modules[i] \notin Names(modules)

\* a synthesis request was sent after an adaptive selection that kept a
\* dynamically defined module and lost a selected module and a dynamically
\* defined one to their weight
C11_Witness ==
    /\ synthesis_request.sent
    /\ selection_metadata.auto_selected
    /\ \E n \in Names(selected_names) : n \in Names(deactivated_modules)
    /\ \E n \in Names(AdHocNames(selection_metadata.ad_hoc_modules)) :
          n \in Names(deactivated_modules)
    /\ \E n \in Names(AdHocNames(selection_metadata.ad_hoc_modules)) : n \in Names(modules)

\* the aggregate handed to the consolidator once more: every module output and
\* the synthesis response carry the aggregate's source list as their sources
Reattached(outs, sources) ==
    [i \in 1..Len(outs) |-> [outs[i] EXCEPT !.sources = sources]]

SynthesisOf(r) ==
    [conflicts |-> r.conflicts, synthesis |-> r.synthesis,
     recommendations |-> r.recommendations, priority_flags |-> r.priority_flags]

\* every citation of the aggregate is an index of its source list, every
\* entry of the list bears a URL
AlreadyConsolidated(r) ==
    /\ r.returned
    /\ \A t \in ResultTexts(r) : CitedIn(t) \subseteq 1..Len(r.sources)
    /\ \A k \in 1..Len(r.sources) : _extract_url_from_source(r.sources[k]) # ""

Reconsolidated(r) ==
    _consolidate_sources(Reattached(r.module_outputs, r.sources),
                         [sources |-> r.sources] @@ SynthesisOf(r))

\* C12: consolidation is idempotent: the consolidator applied to an aggregate
\* that is already consolidated (every source bears a URL, every citation is
\* a valid global index) returns the same global source list, the same
\* analysis and flags for every module output, and the same synthesis text.
C12_ConsolidationIdempotent ==
    AlreadyConsolidated(result) =>
        LET again == Reconsolidated(result)
        IN  /\ again.global_sources = result.sources
            /\ Len(again.remapped_outputs) = Len(result.module_outputs)
            /\ \A i \in 1..Len(result.module_outputs) :
                    /\ again.remapped_outputs[i].analysis = result.module_outputs[i].analysis
                    /\ again.remapped_outputs[i].flags = result.module_outputs[i].flags
            /\ again.remapped_synthesis = SynthesisOf(result)

\* the outputs returned by a consolidation of the outputs ins: one per input
\* and in its place, sources emptied
FreshOutputsOf(outs, ins) ==
    /\ Len(outs) = Len(ins)
    /\ \A i \in 1..Len(ins) :
            /\ outs[i].module_name = ins[i].module_name
            /\ outs[i].round = ins[i].round
            /\ outs[i].revised = ins[i].revised
            /\ outs[i].sources = << >>

\* C13: consolidation does not modify the ModuleOutputs it is given.  Neither
\* the pre-synthesis pass nor the final pass changes round1_outputs or
\* round2_outputs (sources and text are kept); each pass returns one new
\* output per input, in the same order, with the same module_name, round and
\* revised and with empty sources; so the final pass consolidates the very
\* outputs the pre-synthesis pass consolidated and remaps them the same way.
C13_InputsNotModified ==
    [][ /\ pc \in { "synthesis", "final" } =>
                /\ round1_outputs' = round1_outputs
                /\ round2_outputs' = round2_outputs
        /\ (pc = "synthesis" /\ synthesis_request'.sent) =>
                FreshOutputsOf(synthesis_request'.all_outputs, AllOutputs)
        /\ (pc = "final" /\ pc' # "raised") =>
                /\ FreshOutputsOf(remapped_outputs', AllOutputs)
                /\ synthesis_request.sent =>
                        remapped_outputs' = synthesis_request.all_outputs ]_vars

\* both passes have run on an output that names sources and whose text the
\* consolidation rewrote
C13_Witness ==
    /\ pc \in { "deep_research", "build" }
    /\ synthesis_request.sent
    /\ \E i \in 1..Len(AllOutputs) :
            /\ AllOutputs[i].sources # << >>
            /\ remapped_outputs[i].analysis # AllOutputs[i].analysis
            /\ remapped_outputs[i].sources = << >>

\* the synthesis-derived texts, each as << text of the response, text after
\* consolidation >>
SynthesisTextPairs ==
    { << synthesis_result.synthesis, remapped_synthesis.synthesis >> }
    \cup { << synthesis_result.recommendations[i], remapped_synthesis.recommendations[i] >> :
                i \in 1..Len(synthesis_result.recommendations) }
    \cup { << synthesis_result.priority_flags[i], remapped_synthesis.priority_flags[i] >> :
                i \in 1..Len(synthesis_result.priority_flags) }
    \cup { << synthesis_result.conflicts[i].description,
              remapped_synthesis.conflicts[i].description >> :
                i \in 1..Len(synthesis_result.conflicts) }

Consolidated == pc \in { "deep_research", "resolving", "build", "returned" }

\* N is beyond the synthesis response's own source list
BeyondSynthesisSources(n) == n \notin 1..Len(synthesis_result.sources)

\* N points at a synthesis source that was dropped for having no URL
DroppedSynthesisSource(n) ==
    /\ n \in 1..Len(synthesis_result.sources)
    /\ _extract_url_from_source(_strip_source_prefix(synthesis_result.sources[n])) = ""

\* C14: in synthesis-derived text (synthesis, recommendations, priority
\* flags, conflict descriptions) a marker "[N]" for which consolidation has no
\* mapping -- N beyond the synthesis response's own source list, or N the
\* position of a synthesis source dropped for having no URL -- stands in the
\* consolidated text exactly as it stood in the response.
C14_UnmappedSynthesisMarkerKept ==
    Consolidated =>
        \A p \in SynthesisTextPairs :
            /\ Len(p[2]) = Len(p[1])
            /\ \A j \in 1..Len(p[1]) :
                    (/\ IsMarker(p[1][j])
                     /\ \/ BeyondSynthesisSources(MarkerNum(p[1][j]))
                        \/ DroppedSynthesisSource(MarkerNum(p[1][j])))
                    => p[2][j] = p[1][j]

\* the URL-bearing sources of the resolutions, as the scan strips them
ResolutionSources(resolutions) ==
    { s \in UNION { { _strip_source_prefix(resolutions[i].sources[k]) :
                        k \in 1..Len(resolutions[i].sources) } :
                     i \in 1..Len(resolutions) } :
        _extract_url_from_source(s) # "" }

UrlsOf(srcs) == { _extract_url_from_source(srcs[k]) : k \in 1..Len(srcs) }

\* local index -> the index of the entry of srcs that has the same URL
UrlIndexMap(sources, srcs) ==
    [k \in { q \in 1..Len(sources) :
                _extract_url_from_source(_strip_source_prefix(sources[q])) # "" } |->
        CHOOSE j \in 1..Len(srcs) :
            _extract_url_from_source(srcs[j]) =
                _extract_url_from_source(_strip_source_prefix(sources[k]))]

\* the resolutions as _run_deep_research returned them
ReturnedResolutions == RestoreOrder(results, items)

DeepResearchExtended ==
    pc \in { "build", "returned" } /\ conflict_resolutions # << >>

\* C15: when deep research extends the global list, the list produced by the
\* main consolidation is a prefix of the extended list; a resolution source
\* whose URL is already in the list is cited by the index of that entry; only
\* resolution sources with a new URL are appended, one entry per new URL; so
\* no two entries share a URL and every citation number names one source.
C15_ExtensionKeepsIndices ==
    DeepResearchExtended =>
        LET main == MainGlobalSources
            tail == SubSeq(global_sources, Len(main) + 1, Len(global_sources))
            new == { s \in ResolutionSources(ReturnedResolutions) :
                        _extract_url_from_source(s) \notin UrlsOf(main) }
        IN  /\ Len(main) <= Len(global_sources)
            /\ SubSeq(global_sources, 1, Len(main)) = main
            /\ SeqToSet(tail) \subseteq new
            /\ UrlsOf(tail) = { _extract_url_from_source(s) : s \in new }
            /\ UrlsDistinct(global_sources)
            /\ Len(conflict_resolutions) = Len(ReturnedResolutions)
            /\ \A i \in 1..Len(ReturnedResolutions) :
                    LET raw == ReturnedResolutions[i]
                        m == UrlIndexMap(raw.sources, global_sources)
                    IN  /\ conflict_resolutions[i].verdict =
                                _remap_citations(raw.verdict, m, TRUE)
                        /\ conflict_resolutions[i].updated_recommendation =
                                _remap_citations(raw.updated_recommendation, m, TRUE)

\* one resolution named a source whose URL the main list already had, and a
\* source with a new URL, which was appended
C15_Witness ==
    /\ DeepResearchExtended
    /\ MainGlobalSources # << >>
    /\ Len(global_sources) > Len(MainGlobalSources)
    /\ \E s \in ResolutionSources(ReturnedResolutions) :
            _extract_url_from_source(s) \in UrlsOf(MainGlobalSources)
    /\ \E t \in ResultTexts(FinalAnalysis) \ { << >> } :
            \E n \in CitedIn(t) : n > Len(MainGlobalSources)

\* the item resolve_item is given for a conflict / for a priority flag
ItemOfConflict(c) ==
    [topic |-> c.topic, description |-> c.description,
     modules |-> c.modules, severity |-> c.severity]

ItemOfFlag(f) ==
    [topic |-> Tail(f), description |-> Tail(f), modules |-> << >>, severity |-> "red"]

\* how many resolution requests have been sent for the item x
RequestsFor(x) ==
    Cardinality({ k \in 1..Len(resolution_requests) : resolution_requests[k] = x })

DeepResearchOver == deep_research /\ pc \in { "build", "returned" }

\* C16: with deep research enabled, exactly one resolution request is sent for
\* each conflict of severity high or critical and for each priority flag that
\* begins with "red:" and is not covered by the topic of such a conflict, and
\* none for any other conflict or flag; also when the qualifying items are
\* more than the 5 workers of the pool.  While the items are being resolved
\* no item has more than one request and no more than 5 are in progress.
C16_OneRequestPerQualifyingItem ==
    LET flags == remapped_synthesis.priority_flags
        qc == { i \in 1..Len(conflicts) : conflicts[i].severity \in { "high", "critical" } }
        covered(f) ==
            \E i \in qc : IsInfix(LowerText(conflicts[i].topic), LowerText(Tail(f)))
        qf == { j \in 1..Len(flags) :
                    /\ flags[j] # << >>
                    /\ Lower(flags[j][1]) = "red:"
                    /\ ~covered(flags[j]) }
        Wanted(x) == Cardinality({ i \in qc : ItemOfConflict(conflicts[i]) = x })
                     + Cardinality({ j \in qf : ItemOfFlag(flags[j]) = x })
        wanted == { ItemOfConflict(conflicts[i]) : i \in qc }
                  \cup { ItemOfFlag(flags[j]) : j \in qf }
    IN  /\ (deep_research /\ pc = "resolving") =>
                /\ \A k \in 1..Len(resolution_requests) :
                        RequestsFor(resolution_requests[k]) <= Wanted(resolution_requests[k])
                /\ Cardinality(item_running) <= MaxWorkers
        /\ DeepResearchOver =>
                /\ Len(resolution_requests) = Cardinality(qc) + Cardinality(qf)
                /\ \A k \in 1..Len(resolution_requests) : resolution_requests[k] \in wanted
                /\ \A x \in wanted : RequestsFor(x) = Wanted(x)

\* more qualifying items than workers, next to a conflict and a flag that do
\* not qualify and a red flag covered by a conflict topic; every request sent
C16_Witness ==
    /\ DeepResearchOver
    /\ Len(items) > MaxWorkers
    /\ Len(resolution_requests) = Len(items)
    /\ \E i \in 1..Len(conflicts) : conflicts[i].severity \in { "low", "medium" }
    /\ \E j \in 1..Len(remapped_synthesis.priority_flags) :
            /\ Lower(remapped_synthesis.priority_flags[j][1]) = "red:"
            /\ ItemOfFlag(remapped_synthesis.priority_flags[j]) \notin SeqToSet(items)
    /\ item_failed # {}

\* the indices of the items whose request succeeded, ascending
SucceededIndices ==
    LET ok == item_done \ item_failed
    IN  [k \in 1..Cardinality(ok) |->
            CHOOSE i \in ok : Cardinality({ j \in ok : j <= i }) = k]

\* C17: the resolutions returned by deep research are exactly the items whose
\* request succeeded, in the original item order (conflicts before flags,
\* each in input order), whatever the order in which the requests completed
\* and also when two items have the same topic; an item whose request raised
\* is dropped and the others are not affected.
C17_ResolutionsInItemOrder ==
    DeepResearchOver =>
        /\ Len(conflict_resolutions) = Len(SucceededIndices)
        /\ \A k \in 1..Len(SucceededIndices) :
                LET item == items[SucceededIndices[k]]
                IN  /\ conflict_resolutions[k].topic = item.topic
                    /\ conflict_resolutions[k].modules = item.modules
                    /\ conflict_resolutions[k].severity = item.severity

\* C18: in round 2 the peer context given to a module m consists of the
\* round-1 outputs of every other module that has a round-1 output, in their
\* order, and never contains m's own output; m's own round-1 analysis is what
\* seeds m's search context, and it reaches m's task in no other way.
C18_PeerContextExcludesOwn ==
    (ptc_round = 2 /\ ptc_phase = "running") =>
        \A k \in 1..Len(futures) :
            LET m == futures[k].name
                peers == futures[k].peer_context
            IN  /\ m \notin OutputNames(peers)
                /\ OutputNames(peers) = OutputNames(round1_outputs) \ { m }
                /\ SeqToSet(peers) \subseteq SeqToSet(round1_outputs)
                /\ Len(peers) = Len(round1_outputs) - 1
                /\ \A i \in 1..Len(peers) : \A j \in 1..Len(peers) :
                        i < j => \E a \in 1..Len(round1_outputs) :
                                    \E b \in (a + 1)..Len(round1_outputs) :
                                        /\ round1_outputs[a] = peers[i]
                                        /\ round1_outputs[b] = peers[j]
                /\ \E i \in 1..Len(round1_outputs) :
                        /\ round1_outputs[i].module_name = m
                        /\ futures[k].prior_analysis = round1_outputs[i].analysis

\* a round-2 task of a module that has a peer with a round-1 output, while
\* another module of the roster has none
C18_Witness ==
    /\ ptc_round = 2
    /\ ptc_phase = "running"
    /\ Len(round1_outputs) >= 2
    /\ Len(round1_outputs) < Len(modules)
    /\ \E k \in 1..Len(futures) :
            /\ futures[k].peer_context # << >>
            /\ futures[k].state = "done"

\* C19: no two concurrently running tasks share mutable state: nothing that
\* one task writes -- the client's token-usage accumulator and the searcher's
\* query cache included -- is read or written by a sibling task, so that no
\* interleaving loses an update.  As a property of the steps: when a task
\* stores its usage, the accumulator grows by the tokens of the task's
\* response, whatever its siblings did since the task loaded it; and when a
\* task stores the results of a query it missed, no sibling has stored that
\* query since.
C19_NoSharedMutableState ==
    [][ \A k \in 1..Len(futures) :
            /\ (/\ ptc_phase = "running"
                /\ futures[k].state = "tracking"
                /\ k \in 1..Len(futures')
                /\ futures'[k].state = "done")
               => _usage' = _usage + Usage(futures[k].response)
            /\ (/\ ptc_phase = "running"
                /\ futures[k].state = "fetching"
                /\ k \in 1..Len(futures')
                /\ futures'[k].state = "requesting")
               => futures[k].query \notin DOMAIN _query_cache ]_vars

\* the modules the gap check added
AddedModules ==
    IF selection_metadata.auto_selected
    THEN AdHocNames(selection_metadata.ad_hoc_modules)
    ELSE << >>

\* C20: adaptive selection adds at most 3 dynamic modules whatever the
\* gap-check response holds, and no added module has the name of a module of
\* the fixed pool, of a selected module, or of another added module.
C20_AdHocCappedAndDistinct ==
    RosterResolved =>
        /\ Len(AddedModules) <= AdHocCap
        /\ \A i \in 1..Len(AddedModules) :
                /\ AddedModules[i] \notin ALL_MODULE_NAMES
                /\ AddedModules[i] \notin Names(selected_names)
                /\ AddedModules[i] # ""
                /\ \A j \in 1..Len(AddedModules) : i # j => AddedModules[i] # AddedModules[j]
        /\ Names(AddedModules) \subseteq MODULE_SYSTEM_PROMPTS

\* the gap check added as many modules as the cap allows, next to a selected
\* module that is not one of the registry classes
C20_Witness ==
    /\ RosterResolved
    /\ Len(AddedModules) = AdHocCap
    /\ "political" \in Names(selected_names)


\* the static default roster and what the weights remove from it
DefaultRoster == ActiveOf(MODULE_REGISTRY, weights)

\* the final consolidation cannot take the synthesis response
SynthesisRejected ==
    \/ SynthesisTypeError(synthesis_result)
    \/ ~ConflictsValid(synthesis_result.conflicts)

AnswersTo(tc_id) ==
    { m \in 1..Len(tool_result_messages) : tool_result_messages[m].tool_call_id = tc_id }

\* C22: in every exchange cycle of a dispatch round, when the loop goes back
\* to the service each invocation request of the cycle -- one whose task
\* raised and one that names a module outside the round's roster included --
\* has exactly one response message with its invocation id in the
\* conversation.  The code does not keep this: a request that names no module
\* of module_map is skipped and gets no response message.
C22_EveryRequestAnswered ==
    (ptc_phase = "request" /\ cycles > 0) =>
        \A i \in 1..Len(tool_calls) : Cardinality(AnswersTo(tool_calls[i].id)) = 1

IsPrefix(s, t) == Len(s) <= Len(t) /\ SubSeq(t, 1, Len(s)) = s

\* a marker of the synthesis response that names an entry of the pre-merged
\* list synthesis was given
CitesPreMerged(tok) == IsMarker(tok) /\ MarkerNum(tok) \in 1..Len(pre_global_sources)

\* C23: a synthesis citation "[N]" with 1 <= N <= len(pre-merged list) names in
\* the final aggregate the source it named in the pre-merged list: the
\* pre-merged list is a prefix of the final global list, and the final
\* consolidation leaves every such marker of the synthesis, the
\* recommendations, the priority flags and the conflict descriptions as it is,
\* whatever sources array the response carries.  The code does not keep this:
\* when the response carries sources, "[N]" with N <= len(response sources) is
\* renumbered to the index of the N-th source of the response.
C23_PreMergedNumbersKept ==
    Consolidated =>
        /\ IsPrefix(pre_global_sources, global_sources)
        /\ \A p \in SynthesisTextPairs :
                /\ Len(p[2]) = Len(p[1])
                /\ \A j \in 1..Len(p[1]) : CitesPreMerged(p[1][j]) => p[2][j] = p[1][j]

\* the final consolidation has run and deep research has not yet extended
\* the list
MainConsolidated == pc \in { "deep_research", "resolving" }

\* the URLs the synthesis response brought that no module source has
NewSynthesisUrls ==
    { _extract_url_from_source(_strip_source_prefix(synthesis_result.sources[k])) :
        k \in 1..Len(synthesis_result.sources) } \ (UrlsOf(pre_global_sources) \cup { "" })

\* C24: if synthesis was given a pre-merged list and still returns a non-empty
\* sources array, the response is taken (its texts and conflicts are
\* consolidated, nothing raises); every source of the response whose URL is
\* not yet in the list becomes a new entry after all module sources, one entry
\* per new URL, and a source whose URL the list already has gets the index of
\* the existing entry: a marker of the response that cites its k-th source
\* ends up citing the entry of the global list with that source's URL.
C24_SynthesisSourcesAppended ==
    (MainConsolidated /\ synthesis_request.sent /\ synthesis_result.sources # << >>) =>
        LET syn == synthesis_result.sources
            tail == SubSeq(global_sources, Len(pre_global_sources) + 1, Len(global_sources))
            url(k) == _extract_url_from_source(_strip_source_prefix(syn[k]))
        IN  /\ Len(conflicts) = Len(synthesis_result.conflicts)
            /\ IsPrefix(pre_global_sources, global_sources)
            /\ UrlsOf(tail) = NewSynthesisUrls
            /\ Len(tail) = Cardinality(NewSynthesisUrls)
            /\ SeqToSet(tail) \subseteq { _strip_source_prefix(syn[k]) : k \in 1..Len(syn) }
            /\ \A k \in 1..Len(syn) :
                    (url(k) # "" /\ url(k) \in UrlsOf(pre_global_sources)) =>
                        \E g \in 1..Len(pre_global_sources) :
                            /\ _extract_url_from_source(global_sources[g]) = url(k)
                            /\ global_sources[g] = pre_global_sources[g]
            /\ \A p \in SynthesisTextPairs :
                    /\ Len(p[2]) = Len(p[1])
                    /\ \A j \in 1..Len(p[1]) :
                            (/\ IsMarker(p[1][j])
                             /\ MarkerNum(p[1][j]) \in 1..Len(syn)
                             /\ url(MarkerNum(p[1][j])) # "")
                            => /\ IsMarker(p[2][j])
                               /\ MarkerNum(p[2][j]) \in 1..Len(global_sources)
                               /\ _extract_url_from_source(global_sources[MarkerNum(p[2][j])])
                                    = url(MarkerNum(p[1][j]))

\* a response with two sources was consolidated on top of a pre-merged list:
\* one URL the list already had, under another title, and one new URL, which
\* went to the end of the list
C24_Witness ==
    /\ MainConsolidated
    /\ synthesis_request.sent
    /\ Len(synthesis_result.sources) = 2
    /\ pre_global_sources # << >>
    /\ \E k \in 1..2 : \E g \in 1..Len(pre_global_sources) :
            /\ synthesis_result.sources[k].url = pre_global_sources[g].url
            /\ synthesis_result.sources[k].title # pre_global_sources[g].title
    /\ NewSynthesisUrls # {}
    /\ Len(global_sources) = Len(pre_global_sources) + 1

\* the result set of the round that has just ended, as analyze holds it
RoundResult == IF pc = "round2" THEN round1_outputs ELSE round2_outputs

\* C25: every module whose round task returned a ModuleOutput is in that
\* round's result set as analyze sees it, whatever failed later in the same
\* round: a sibling task that raised, or a later orchestrating request that
\* raised.  The code does not keep this: an orchestrating request that raises
\* in a later cycle leaves run_ptc_round with the exception, and analyze takes
\* the round's result set to be empty.
C25_ProducedOutputsKept ==
    (pc \in { "round2", "synthesis" } /\ ptc_returned.called) =>
        SucceededNames \subseteq OutputNames(RoundResult)

\* the roster of the dispatch round that has just ended
RoundRoster == IF pc = "round2" THEN modules ELSE eligible_modules

\* the modules a task of the round was started for and has completed
RanInRound == SucceededNames \cup failed

\* C26: in one dispatch round the round method of each module of the round's
\* roster is executed exactly once.  While a cycle runs no two tasks are for
\* the same module, no task is for a module that an earlier cycle of the round
\* already produced an output for, and there are no more tasks than modules
\* in the round; when the round returns, every module of its roster has been
\* run.  The code does not keep this: tasks are started for exactly the
\* requests of the service, so a module the service names twice is run twice
\* and a module it does not name is not run.
C26_EachModuleOnce ==
    /\ ptc_phase = "running" =>
          /\ \A k, j \in 1..Len(futures) : k # j => futures[k].name # futures[j].name
          /\ \A k \in 1..Len(futures) : futures[k].name \notin OutputNames(CapturedValues)
          /\ Len(futures) <= Len(ptc_modules)
    /\ (pc \in { "round2", "synthesis" } /\ ptc_returned.called /\ ~ptc_returned.raised) =>
          Names(RoundRoster) \subseteq RanInRound

Completed(f) == f.state \in { "done", "error" }

\* every task of the cycle has completed and its response is recorded
CycleSettled ==
    /\ \A k \in 1..Len(futures) : Completed(futures[k])
    /\ \A k \in 1..Len(futures) : Cardinality(AnswersTo(futures[k].tc_id)) = 1
    /\ Len(tool_result_messages) = Len(futures)

\* C27: the orchestrating exchange loop is strictly sequential.  The tasks
\* that exist at any time were all started in the current cycle; the loop
\* stands before a request to the service only when every task of the cycle
\* has completed and has its response recorded, so a new request is sent, and
\* the tasks of the next cycle are started, only then; and the round returns
\* from that point only, on the answer without invocation requests, while an
\* answer with requests starts their tasks and does not return.
C27_LoopStrictlySequential ==
    [][ /\ \A k \in 1..Len(futures) : futures[k].tc_id[1] = cycles
        /\ ptc_phase = "request" => CycleSettled
        /\ (ptc_phase = "running" /\ ptc_phase' = "request") =>
                /\ \A k \in 1..Len(futures) : Completed(futures[k])
                /\ \A k \in 1..Len(futures') :
                        \E m \in 1..Len(tool_result_messages') :
                            tool_result_messages'[m].tool_call_id = futures'[k].tc_id
        /\ cycles' = cycles + 1 =>
                /\ ptc_phase = "request"
                /\ CycleSettled
                /\ ptc_phase' = "running"
                /\ tool_calls' # << >>
                /\ ptc_returned' = ptc_returned
                /\ \A k \in 1..Len(futures') :
                        /\ futures'[k].tc_id[1] = cycles'
                        /\ ~Completed(futures'[k])
        /\ (ptc_phase # "idle" /\ ptc_phase' = "idle") =>
                /\ ptc_phase = "request"
                /\ CycleSettled
                /\ ptc_returned'.called ]_vars

\* a second cycle has ended, after a first one whose output is captured, with
\* a task that raised and a task that returned an output
C27_Witness ==
    /\ ptc_phase = "request"
    /\ cycles = 2
    /\ Len(futures) = 2
    /\ \E k, j \in 1..2 : futures[k].state = "error" /\ futures[j].state = "done"
    /\ Len(captured) = 2
    /\ Len(tool_result_messages) = 2

\* C28: analyze terminates with a FinalAnalysis.  Provided every remote call
\* eventually returns or raises and the service eventually ends every
\* dispatch round, analyze eventually returns a FinalAnalysis, and no stage
\* waits forever on a task that has failed.  The code does not keep this: no
\* stage waits forever, but on a synthesis response that the final
\* consolidation rejects analyze ends with an exception and returns nothing.
C28_AnalyzeTerminates == <>(result.returned)

\* C29: the pool against which adaptive selection validates module names is
\* fixed.  Creating a dynamically defined module stores nothing in the global
\* prompt table, so after any sequence of analyze calls the table holds the
\* names of the pool and no others, and the names a selection is validated to
\* are names of the pool: a name that was only a dynamically defined module
\* of an earlier call is not accepted.  The code does not keep this:
\* create_dynamic_module writes the prompt into MODULE_SYSTEM_PROMPTS, the
\* table the next selection is validated against.
C29_PoolFixed ==
    /\ MODULE_SYSTEM_PROMPTS = ALL_MODULE_NAMES
    /\ Names(selected_names) \subseteq ALL_MODULE_NAMES

\* C30: the active roster never holds two modules with the same name,
\* whatever the selection and the gap-check responses are (a selection that
\* names one module twice included), so that the name -> module map of a
\* dispatch round and the roster-order map have one entry per roster member
\* and modules_attempted counts each module once.  The code does not keep
\* this: the selected names are validated against the pool but not
\* deduplicated, and a module is instantiated for every occurrence.
C30_RosterNamesDistinct ==
    RosterResolved =>
        /\ \A i, j \in 1..Len(modules) : i # j => modules[i] # modules[j]
        /\ Cardinality(DOMAIN ModuleOrderOf(modules)) = Len(modules)
=============================================================================
